---- MODULE Spec2Model ----
(***************************************************************************)
(* RetailAgent: the shopping-flow orchestrator of                          *)
(* src/background/service_worker.js and the model client of                *)
(* src/lib/gemini.js, as state machines.                                   *)
(*                                                                         *)
(* Every `await` of the JavaScript is a suspension point: an async         *)
(* function is modelled by a program counter naming the await it is        *)
(* suspended at, and one action per resumption, which runs the code up to  *)
(* the next await atomically (the event loop runs one task at a time).     *)
(***************************************************************************)
EXTENDS Integers, Sequences, FiniteSets, TLC

\* ------------------------------------------------------------------ bounds
\* requests submitted, executeNextStep invocations alive at once, and
\* CLICK_BUY_NOW requests counted per tab
MaxRequests == 2
MaxInv == 2
MaxSends == 2
\* generateContent calls made, clock ticks, and the length the default
\* candidate list is cut to
MaxCalls == 2
MaxTicks == 3
MaxModels == 3
\* the minute of day 0 at which the clock starts (two minutes to midnight)
FirstMinute == 1438
\* generate-content requests counted per query text
MaxFetches == 3
\* the largest maxRetries a caller of the retry functions passes
MaxOptRetries == 3
MaxPollTime == 1500
MaxLate == 500
MaxResults == 2
\* entries the response cache holds when the cache operations start, and
\* clock ticks while they run
MaxWarm == 99
MaxCacheTicks == 3
\* addAddress calls made
MaxAdds == 3

\* --------------------------------------------------------------- constants
\* currentState.tabId starts as null
NoTab == -1
\* handleUserQuery passes maxRetries: 2 to retryAPICall
ParseMaxRetries == 2
\* DEFAULT_TTL of cache.js, in minutes
DefaultTTL == 5
\* cache.maxSize
CacheMaxSize == 100
\* the TTL generateContent caches a response with, 2 * 60 * 1000 ms, in minutes
ResponseTTL == 2
\* a calendar day in minutes: toDateString changes every 1440 minutes
MinutesPerDay == 1440

\* RetryConfig's defaults
DefaultMaxRetries == 3
DefaultInitialDelay == 1000
DefaultMaxDelay == 30000
DefaultMultiplier == 2
\* the jitter factor 0.3 of calculateDelay, in percent
JitterPercent == 30
WaitDefaultTimeout == 10000
WaitDefaultInterval == 500

Req == 1 .. MaxRequests
\* Tab r is the tab opened by request r (chrome.tabs.create yields a fresh
\* id); tab 0 is a storefront tab the orchestrator did not open, whose content
\* script reports PAGE_LOADED like any other.
Tabs == 0 .. MaxRequests

\* The platforms registered by the service worker, in registration order.
Registered == <<"amazon", "flipkart", "ebay", "walmart">>
RegisteredNames == {Registered[k] : k \in 1 .. Len(Registered)}

\* currentState.data = {} : no parsed intent.  The req field tags the intent
\* with the request whose text it was parsed from.
NoIntent == [req |-> 0, product |-> "", platform |-> ""]
\* What JSON.parse of the model's answer can yield for request r: a product
\* or none, and a platform (a registered one or an unregistered one) or none.
Intents(r) == [req : {r}, product : {"", "phone"}, platform : {"", "etsy", "ebay"}]
\* configManager.get('preferredPlatform'): null by default, or what the user
\* stored.
Preferred == {"", "flipkart"}

\* The storefront-mutating requests to the page agent.
Mutating == {"CLICK_BUY_NOW", "ADD_TO_CART"}

\* The awaits executeNextStep can be suspended at.
InvPcs ==
    {"search", "sel_wait", "sel_get1", "sel_retry_wait", "sel_get2", "sel_nav",
     "pp_wait", "pp_buy", "pp_cart", "co_get", "co_details"}

VARIABLES
    currentState,   \* the orchestrator's single FlowState
    hq,             \* hq[r]: the handleUserQuery call of request r
    ens,            \* ens[<<pc, t>>]: executeNextStep(t) invocations suspended at pc
    opened,         \* the tabs that exist
    sent,           \* sent[t]: CLICK_BUY_NOW requests issued to tab t
    entered         \* entered[t]: times flow t was put in SEARCHING

ovars == <<currentState, hq, ens, opened, sent, entered>>

NewQuery == [pc |-> "new", attempt |-> 0, preferred |-> "", platformName |-> "",
             platform |-> ""]
DoneQuery == [NewQuery EXCEPT !.pc = "done"]

OInit ==
    /\ currentState =
         [status |-> "IDLE", data |-> NoIntent, tabId |-> NoTab, platform |-> ""]
    /\ hq = [r \in Req |-> NewQuery]
    /\ ens = [e \in InvPcs \X Tabs |-> 0]
    /\ opened = {0}
    /\ sent = [t \in Tabs |-> 0]
    /\ entered = [t \in Tabs |-> 0]

\* ================================================================ gemini.js
\* The model identifiers, most capable first; the candidate list is cut to
\* its first MaxModels entries.
AllDefaultModels ==
    <<"gemini-2.0-flash-exp", "gemini-1.5-pro", "gemini-1.5-flash",
      "gemini-1.5-flash-latest", "gemini-pro", "gemini-flash-latest">>
GEMINI_MODELS ==
    SubSeq(AllDefaultModels, 1,
           IF MaxModels < Len(AllDefaultModels) THEN MaxModels ELSE Len(AllDefaultModels))

\* a.includes('2.0'), a.includes('1.5')
Includes20(m) == m \in {"gemini-2.0-flash-exp"}
Includes15(m) == m \in {"gemini-1.5-pro", "gemini-1.5-flash", "gemini-1.5-flash-latest"}

\* What the list-models RPC can answer for a credential: records with a
\* name "models/<id>" (the pair <<"models/", id>>) and the supported
\* generation methods.
ApiModelLists ==
    { << [name |-> <<"models/", "gemini-pro">>, methods |-> {"generateContent"}],
         [name |-> <<"models/", "embedding-001">>, methods |-> {"embedContent"}],
         [name |-> <<"models/", "gemini-1.5-pro">>, methods |-> {"generateContent"}],
         [name |-> <<"models/", "gemini-2.0-flash-exp">>, methods |-> {"generateContent"}] >> }

\* API keys as <<first 10 characters, rest>>.
ApiKeys == {<<"AIzaSyA000", "x">>, <<"AIzaSyA000", "y">>, <<"AIzaSyB111", "x">>}
\* apiKey.substring(0, 10)
KeyPrefix(apiKey) == apiKey[1]
Prefixes == {KeyPrefix(k) : k \in ApiKeys}

Prompts == {"buy a phone", "buy a laptop"}
SystemInstructions == {"extract the intent"}
\* The system prompt parseIntent builds: the instructions, then the request.
SystemPrompt(text) == "extract the intent. User Request: \"" \o text \o "\""
\* The modelName argument: null (""), or a model of the caller's choice.
ModelNames == {"", "gemini-pro"}

\* HTTP statuses of the generate-content endpoint; NetworkError stands for a
\* fetch that rejects (no response, so the error carries no status).
NetworkError == 0
Statuses == {200, 429, 403, 500, NetworkError}

\* The clock, in minutes since midnight of day 0.
Day(t) == t \div MinutesPerDay
Times == FirstMinute .. FirstMinute + MaxTicks

\* The JSON body model m returns for a prompt.
Data(m, prompt, sys) == [model |-> m, prompt |-> prompt, sys |-> sys]
NoData == [model |-> "", prompt |-> "", sys |-> ""]
NoError == [status |-> -1, model |-> ""]

\* ---------------------------------------------------------------- cache.js
\* cache.store is a Map: a sequence of entries in insertion order.
CacheIndex(store, key) ==
    IF \E k \in 1 .. Len(store) : store[k].key = key
    THEN CHOOSE k \in 1 .. Len(store) : store[k].key = key
    ELSE 0

RemoveAt(seq, k) == SubSeq(seq, 1, k - 1) \o SubSeq(seq, k + 1, Len(seq))

\* An entry that lives a minute longer.
isExpiredLate(entry, t) == t > entry.expiresAt + 1

\* CacheEntry.isExpired
isExpired(entry, t) == t > entry.expiresAt

\* Cache.get: the store after the lookup (an expired entry is deleted) ...
CacheAfterGet(store, key, t) ==
    LET k == CacheIndex(store, key)
    IN  IF k # 0 /\ isExpired(store[k], t) THEN RemoveAt(store, k) ELSE store
\* ... and the value returned (NoData for null).
CacheGet(store, key, t) ==
    LET k == CacheIndex(store, key)
    IN  IF k = 0 \/ isExpired(store[k], t) THEN NoData ELSE store[k].data

\* A set that makes room in a full store whatever the key.
CacheSetAlwaysEvict(store, key, value, ttl, t) ==
    LET entry == [key |-> key, data |-> value, expiresAt |-> t + ttl]
        room == IF Len(store) >= CacheMaxSize THEN Tail(store) ELSE store
        k == CacheIndex(room, key)
    IN  IF k = 0 THEN Append(room, entry) ELSE [room EXCEPT ![k] = entry]

\* Cache.set: evicts the oldest entry of a full store for a new key; Map.set
\* keeps the position of a key already present.
CacheSet(store, key, value, ttl, t) ==
    LET entry == [key |-> key, data |-> value, expiresAt |-> t + ttl]
        room == IF Len(store) >= CacheMaxSize /\ CacheIndex(store, key) = 0
                THEN Tail(store) ELSE store
        k == CacheIndex(room, key)
    IN  IF k = 0 THEN Append(room, entry) ELSE [room EXCEPT ![k] = entry]

\* `gemini:${prompt}:${systemInstruction}:${modelName || 'default'}`
GeminiCacheKey(prompt, sys, modelName) ==
    "gemini:" \o prompt \o ":" \o sys \o ":" \o
        (IF modelName = "" THEN "default" ELSE modelName)

\* The arguments of the generateContent call that cached a response, and
\* the time it did.
Arguments(prompt, sys, modelName, t) ==
    [prompt |-> prompt, sys |-> sys, modelName |-> modelName, at |-> t]
NoArguments == [prompt |-> "", sys |-> "", modelName |-> "none", at |-> 0]
CacheKeys ==
    {GeminiCacheKey(prompt, sys, modelName) :
        prompt \in Prompts, sys \in SystemInstructions, modelName \in ModelNames}
    \cup {GeminiCacheKey(prompt, SystemPrompt(prompt), "") : prompt \in Prompts}

\* ------------------------------------------------------ getAvailableModels
\* filter(generation-capable) then map(strip "models/")
GenerationModels(list) ==
    LET keep == SelectSeq(list, LAMBDA m : "generateContent" \in m.methods)
    IN  [k \in 1 .. Len(keep) |-> keep[k].name[2]]

\* The comparator of the sort: negative when a is to come first.
Compare(a, b) ==
    IF Includes20(a) THEN -1
    ELSE IF Includes20(b) THEN 1
    ELSE IF Includes15(a) THEN -1
    ELSE IF Includes15(b) THEN 1
    ELSE 0

\* The orders Array.prototype.sort may leave the list in: the permutations
\* in which no element stands before one the comparator puts in front of it
\* both ways round (within a class the comparator answers -1 either way, so
\* the order there is the engine's).
Sorted(list) ==
    LET n == Len(list)
        perms == {f \in [1 .. n -> 1 .. n] : \A i, j \in 1 .. n : i # j => f[i] # f[j]}
    IN  {[k \in 1 .. n |-> list[f[k]]] : f \in
            {g \in perms : \A i, j \in 1 .. n :
                i < j => ~(Compare(list[g[j]], list[g[i]]) < 0
                           /\ Compare(list[g[i]], list[g[j]]) > 0)}}

\* `gemini_working_model:${apiKey.substring(0, 10)}:${today}`
ModelCacheKey(apiKey, t) == <<KeyPrefix(apiKey), Day(t)>>
StorageKeys == Prefixes \X {Day(t) : t \in Times}

VARIABLES
    now,                    \* Date.now(), in minutes
    cacheStore,             \* cache.store of cache.js
    availableModelsCache,   \* per key prefix: the generation models, once listed
    storage,                \* chrome.storage.local: working model per key, "" if none
    call,                   \* the generateContent call in progress or just settled
    ncalls,                 \* calls made so far
    lastSuccess,            \* per key prefix: the model, day and store outcome of the last success
    cachedFor               \* per cache key: the arguments of the call that last cached under it

gvars == <<now, cacheStore, availableModelsCache, storage, call, ncalls, lastSuccess,
           cachedFor>>

NoCall ==
    [pc |-> "idle", apiKey |-> <<"", "">>, prompt |-> "", sys |-> "", modelName |-> "",
     today |-> 0, availableModels |-> <<>>, modelsToTry |-> <<>>, i |-> 0,
     modelAttempts |-> <<>>, fetched |-> <<>>, lastError |-> NoError,
     result |-> NoData, error |-> NoError, readOk |-> FALSE,
     previous |-> [apiKey |-> <<"", "">>, model |-> "", day |-> 0, stored |-> FALSE],
     cache0 |-> <<>>, storage0 |-> [k \in StorageKeys |-> ""]]

NoSuccess == [apiKey |-> <<"", "">>, model |-> "", day |-> 0, stored |-> FALSE]

GInit ==
    /\ now = FirstMinute
    /\ cacheStore = <<>>
    /\ availableModelsCache = [p \in Prefixes |-> [has |-> FALSE, list |-> <<>>]]
    /\ storage = [k \in StorageKeys |-> ""]
    /\ call = NoCall
    /\ ncalls = 0
    /\ lastSuccess = [p \in Prefixes |-> NoSuccess]
    /\ cachedFor = [key \in CacheKeys |-> NoArguments]

\* -------------------------------------------- the parse step of a submission
VARIABLES
    pq,         \* per submission: where its parse step stands
    fetches,    \* per query text: generate-content requests sent to the endpoint
    rejected    \* per query text: some request for it was answered with a failure

pvars == <<pq, fetches, rejected>>

\* ----------------------------------------------------------------- retry.js
VARIABLES
    rw          \* the retryWithBackoff call: its config, loop variables and outcome

rvars == <<rw>>

\* ---------------------------------------------------- ecommerce-platforms.js
VARIABLES
    platforms,  \* platformRegistry.platforms: a Map, here in insertion order
    lookup      \* the last getByUrl call: its url and what it returned

uvars == <<platforms, lookup>>

\* ------------------------------------------------ retry.js: waitForCondition
VARIABLES
    wc          \* the waitForCondition call: its constants, clock and outcome

wvars == <<wc>>

\* ------------------------------------- content scripts: GET_SEARCH_RESULTS
VARIABLES
    sr          \* a results page, the items its content script reports, the choice

svars == <<sr>>

\* ------------------------------------------------ cache.js: the operations
VARIABLES
    cs          \* the cache singleton: its store, the clock, the last operation

cvars == <<cs>>

\* ------------------------------------------------------- address-manager.js
VARIABLES
    am          \* addressManager: addresses, defaultAddress, what storage holds

avars == <<am>>

\* The variables of the components specified further down.
tvars == <<wvars, svars, cvars, avars>>
zvars == <<uvars, tvars>>
yvars == <<rvars, zvars>>
xvars == <<pvars, yvars>>

\* Time passes: between calls, and while a call awaits the network.
Tick ==
    /\ UNCHANGED <<ovars, xvars>>
    /\ now < FirstMinute + MaxTicks
    /\ call.pc \in {"idle", "returned", "threw", "fetch", "models"}
    /\ now' = now + 1
    /\ UNCHANGED <<cacheStore, availableModelsCache, storage, call, ncalls, lastSuccess, cachedFor>>

\* generateContent(apiKey, prompt, systemInstruction, modelName) up to its
\* first await: a cached response is returned at once; otherwise
\* getAvailableModels is awaited.
GenerateContent(apiKey, prompt, sys, modelName) ==
    /\ UNCHANGED <<ovars, xvars>>
    /\ call.pc \in {"idle", "returned", "threw"}
    /\ ncalls < MaxCalls
    /\ ncalls' = ncalls + 1
    /\ LET key == GeminiCacheKey(prompt, sys, modelName)
           cached == CacheGet(cacheStore, key, now)
           started == [NoCall EXCEPT !.apiKey = apiKey, !.prompt = prompt, !.sys = sys,
                                     !.modelName = modelName,
                                     !.previous = lastSuccess[KeyPrefix(apiKey)],
                                     !.cache0 = cacheStore', !.storage0 = storage]
       IN  /\ cacheStore' = CacheAfterGet(cacheStore, key, now)
           /\ call' = IF cached # NoData
                      THEN [started EXCEPT !.pc = "returned", !.result = cached]
                      ELSE [started EXCEPT !.pc = "models"]
    /\ UNCHANGED <<now, availableModelsCache, storage, lastSuccess, cachedFor>>

\* getAvailableModels settles: the list cached for the key prefix, or the
\* sorted answer of listModels (cached from now on), or the defaults when
\* listModels fails.
AvailableModels(apiKey, listed) ==
    IF availableModelsCache[KeyPrefix(apiKey)].has
    THEN {availableModelsCache[KeyPrefix(apiKey)].list}
    ELSE IF listed
    THEN UNION {Sorted(GenerationModels(raw)) : raw \in ApiModelLists}
    ELSE {GEMINI_MODELS}

\* generateContent then computes today's storage key and awaits
\* chrome.storage.local.get.
GetAvailableModels(listed) ==
    /\ UNCHANGED <<ovars, xvars>>
    /\ call.pc = "models"
    /\ availableModelsCache[KeyPrefix(call.apiKey)].has => listed
    /\ \E models \in AvailableModels(call.apiKey, listed) :
         /\ availableModelsCache' =
              IF listed
              THEN [availableModelsCache EXCEPT ![KeyPrefix(call.apiKey)] =
                                                  [has |-> TRUE, list |-> models]]
              ELSE availableModelsCache
         /\ call' = [call EXCEPT !.pc = "storage", !.availableModels = models,
                                 !.today = Day(now)]
    /\ UNCHANGED <<now, cacheStore, storage, ncalls, lastSuccess, cachedFor>>

\* The stored model moved to the end of the list instead of the front.
PromoteLast(model, availableModels) ==
    SelectSeq(availableModels, LAMBDA m : m # model) \o <<model>>

\* [cachedModel.model, ...availableModels.filter(m => m !== cachedModel.model)]
Promote(model, availableModels) ==
    <<model>> \o SelectSeq(availableModels, LAMBDA m : m # model)

\* The candidate order: the stored working model, if the read gave one, goes
\* first; an explicit modelName replaces the whole list.
ModelsToTry(modelName, availableModels, stored) ==
    IF modelName # "" THEN <<modelName>>
    ELSE IF stored # "" THEN Promote(stored, availableModels)
    ELSE availableModels

\* chrome.storage.local.get settles (a failure is caught and logged); the
\* loop over modelsToTry starts and the first fetch is awaited.
StorageRead(ok) ==
    /\ UNCHANGED <<ovars, xvars>>
    /\ call.pc = "storage"
    /\ LET stored == IF ok THEN storage[<<KeyPrefix(call.apiKey), call.today>>] ELSE ""
           list == ModelsToTry(call.modelName, call.availableModels, stored)
       IN  call' = IF list = <<>>
                   THEN [call EXCEPT !.pc = "threw", !.readOk = ok, !.modelsToTry = list,
                                     !.error = [status |-> -1, model |-> "all failed"]]
                   ELSE [call EXCEPT !.pc = "fetch", !.readOk = ok, !.modelsToTry = list,
                                     !.i = 1]
    /\ UNCHANGED <<now, cacheStore, availableModelsCache, storage, ncalls, lastSuccess, cachedFor>>

\* Variants of the test below: only 403 lets the loop go on; every failure does.
ForbiddenOnly(status) == status = 403
AnyFailure(status) == status # 200

\* The statuses on which the loop goes on to the next model.
QuotaStatus(status) == status = 429 \/ status = 403

Attempt(model, i, outcome, statusCode) ==
    [model |-> model, attempt |-> i, status |-> outcome, statusCode |-> statusCode]

\* A loop that, with the list exhausted, returns an empty response.
NextCandidateOrEmpty(c) ==
    IF c.i < Len(c.modelsToTry)
    THEN [c EXCEPT !.i = c.i + 1]
    ELSE [c EXCEPT !.pc = "returned"]

\* The loop goes on after candidate i: the next fetch, or, with the list
\* exhausted, throw lastError.
NextCandidate(c) ==
    IF c.i < Len(c.modelsToTry)
    THEN [c EXCEPT !.i = c.i + 1]
    ELSE [c EXCEPT !.pc = "threw", !.error = c.lastError]

\* The log entries and the outcome of an answer that is not a success.
\* An HTTP failure is logged, and on a quota status the loop continues; any
\* other is thrown into the catch, which logs it again and rethrows.  A
\* rejected fetch reaches the catch with an error that has no status.
FailedAnswer(c, model, status) ==
    LET error == [status |-> status, model |-> IF status = NetworkError THEN "" ELSE model]
        logged == IF status = NetworkError THEN c.modelAttempts
                  ELSE Append(c.modelAttempts, Attempt(model, c.i, "FAILED", status))
    IN  IF QuotaStatus(status)
        THEN NextCandidate([c EXCEPT !.modelAttempts = logged, !.lastError = error])
        ELSE [c EXCEPT !.pc = "threw", !.error = error,
                       !.modelAttempts = Append(logged, Attempt(model, c.i, "FAILED", -1))]

\* The fetch of candidate i settles with a status.  On success the response
\* is cached for 2 minutes, the attempt logged, and the working model
\* written to chrome.storage.local (awaited).
FetchAnswered(status) ==
    /\ UNCHANGED <<ovars, xvars>>
    /\ call.pc = "fetch"
    /\ LET model == call.modelsToTry[call.i]
           c == [call EXCEPT !.fetched = Append(@, [model |-> model, status |-> status])]
           data == Data(model, call.prompt, call.sys)
       IN  IF status = 200
           THEN /\ cacheStore' = CacheSet(cacheStore,
                                          GeminiCacheKey(call.prompt, call.sys, call.modelName),
                                          data, ResponseTTL, now)
                /\ cachedFor' = [cachedFor EXCEPT
                                    ![GeminiCacheKey(call.prompt, call.sys, call.modelName)] =
                                        Arguments(call.prompt, call.sys, call.modelName, now)]
                /\ call' = [c EXCEPT !.pc = "write", !.result = data,
                              !.modelAttempts = Append(@, Attempt(model, c.i, "SUCCESS", -1))]
                /\ lastSuccess' = [lastSuccess EXCEPT ![KeyPrefix(call.apiKey)] =
                                      [apiKey |-> call.apiKey, model |-> model, day |-> Day(now),
                                       stored |-> FALSE]]
           ELSE /\ call' = FailedAnswer(c, model, status)
                /\ UNCHANGED <<cacheStore, lastSuccess, cachedFor>>
    /\ UNCHANGED <<now, availableModelsCache, storage, ncalls>>

\* A write of the working model whose failure is not caught.
StorageWrittenOrThrow(ok) ==
    /\ UNCHANGED <<ovars, xvars>>
    /\ call.pc = "write"
    /\ storage' = IF ok THEN [storage EXCEPT ![ModelCacheKey(call.apiKey, now)] =
                                                call.modelsToTry[call.i]]
                  ELSE storage
    /\ lastSuccess' = [lastSuccess EXCEPT ![KeyPrefix(call.apiKey)].stored = ok]
    /\ call' = IF ok THEN [call EXCEPT !.pc = "returned"]
               ELSE [call EXCEPT !.pc = "threw", !.result = NoData,
                                 !.error = [status |-> -1, model |-> "storage"]]
    /\ UNCHANGED <<now, cacheStore, availableModelsCache, ncalls, cachedFor>>

\* chrome.storage.local.set settles (a failure is caught and logged) and
\* generateContent returns the response.
StorageWritten(ok) ==
    /\ UNCHANGED <<ovars, xvars>>
    /\ call.pc = "write"
    /\ LET model == call.modelsToTry[call.i]
       IN  /\ storage' = IF ok THEN [storage EXCEPT ![ModelCacheKey(call.apiKey, now)] = model]
                         ELSE storage
           /\ lastSuccess' = [lastSuccess EXCEPT ![KeyPrefix(call.apiKey)].stored = ok]
    /\ call' = [call EXCEPT !.pc = "returned"]
    /\ UNCHANGED <<now, cacheStore, availableModelsCache, ncalls, cachedFor>>


\* ====================================================== service_worker.js
\* ----------------------------------------------------------------- helpers
\* CLICK_BUY_NOW goes to tab t.
SendBuyNow(t) ==
    /\ sent[t] < MaxSends
    /\ sent' = [sent EXCEPT ![t] = @ + 1]

\* Flow t's step assigns status s: an assignment of SEARCHING is counted.
NoteStatus(s, t) ==
    entered' = IF s = "SEARCHING" THEN [entered EXCEPT ![t] = @ + 1] ELSE entered

\* The assignment currentState.status = s, made by a step of flow t.
SetStatus(s, t) ==
    /\ currentState' = [currentState EXCEPT !.status = s]
    /\ NoteStatus(s, t)

\* platformRegistry.get(name) inside startAutomation's try/catch: an
\* unregistered name falls back to platformRegistry.get('amazon').
ResolvePlatform(name) == IF name \in RegisteredNames THEN name ELSE "amazon"

\* ------------------------------------------------------ handleUserQuery
\* PROCESS_QUERY listener: starts handleUserQuery(text), which suspends at
\* its first await (logger.clearLogs, then chrome.storage.local.get; nothing
\* of the orchestrator is read or written between the two).
ProcessQuery(r) ==
    /\ UNCHANGED <<gvars, xvars>>
    /\ hq[r].pc = "new"
    /\ \A q \in Req : q < r => hq[q].pc # "new"
    /\ hq' = [hq EXCEPT ![r].pc = "getKey"]
    /\ UNCHANGED <<currentState, ens, opened, sent, entered>>

\* chrome.storage.local.get(['geminiApiKey']) resolves.  Without a key the
\* handler awaits ErrorHandler.handle and returns; with one it calls
\* retryAPICall, whose first attempt of parseIntent is now in flight.
GetApiKey(r, present) ==
    /\ UNCHANGED <<gvars, xvars>>
    /\ hq[r].pc = "getKey"
    /\ hq' = [hq EXCEPT ![r].pc = IF present THEN "parse" ELSE "noKey"]
    /\ UNCHANGED <<currentState, ens, opened, sent, entered>>

NoKeyReturn(r) ==
    /\ UNCHANGED <<gvars, xvars>>
    /\ hq[r].pc = "noKey"
    /\ hq' = [hq EXCEPT ![r] = DoneQuery]
    /\ UNCHANGED <<currentState, ens, opened, sent, entered>>

\* An attempt of parseIntent fails.  retryWithBackoff rethrows a
\* non-retryable error and the error of the last attempt; otherwise it waits
\* calculateDelay and tries again.
ParseFailed(r, retryable) ==
    /\ UNCHANGED <<gvars, xvars>>
    /\ hq[r].pc = "parse"
    /\ hq' = [hq EXCEPT ![r] =
                 IF retryable /\ hq[r].attempt < ParseMaxRetries
                 THEN [@ EXCEPT !.pc = "backoff"]
                 ELSE [@ EXCEPT !.pc = "catch", !.attempt = 0]]
    /\ UNCHANGED <<currentState, ens, opened, sent, entered>>

BackoffDone(r) ==
    /\ UNCHANGED <<gvars, xvars>>
    /\ hq[r].pc = "backoff"
    /\ hq' = [hq EXCEPT ![r].pc = "parse", ![r].attempt = @ + 1]
    /\ UNCHANGED <<currentState, ens, opened, sent, entered>>

\* A resolution that asks the configuration before the intent.
PlatformNamePreferredFirst(intentPlatform, pref) ==
    IF pref # "" THEN pref
    ELSE IF intentPlatform # "" THEN intentPlatform ELSE "amazon"

\* currentState.data.platform || configManager.get('preferredPlatform') ||
\* 'amazon'
PlatformName(intentPlatform, pref) ==
    IF intentPlatform # "" THEN intentPlatform
    ELSE IF pref # "" THEN pref ELSE "amazon"

\* startAutomation up to its await of chrome.tabs.create: the platform name
\* is read from currentState.data, then from the configuration (a
\* synchronous getter, so its await yields to no event), then 'amazon'.
\* pref is the preferred platform the configuration holds at that moment.
StartAutomation(r, pref) ==
    LET name == PlatformName(currentState'.data.platform, pref)
    IN  hq' = [hq EXCEPT ![r] = [pc |-> "createTab", attempt |-> 0,
                                 preferred |-> pref, platformName |-> name,
                                 platform |-> ResolvePlatform(name)]]

\* An attempt of parseIntent returns an intent.  Without a product the
\* handler throws IntentParseError into its own catch; with one it records
\* the intent, sets SEARCHING and calls startAutomation.
ParseSucceeded(r, intent, pref) ==
    /\ UNCHANGED <<gvars, xvars>>
    /\ hq[r].pc = "parse"
    /\ IF intent.product = ""
       THEN /\ hq' = [hq EXCEPT ![r].pc = "catch", ![r].attempt = 0]
            /\ UNCHANGED <<currentState, entered>>
       ELSE /\ currentState' = [currentState EXCEPT !.data = intent,
                                                    !.status = "SEARCHING"]
            /\ NoteStatus("SEARCHING", r)
            /\ StartAutomation(r, pref)
    /\ UNCHANGED <<ens, opened, sent>>

\* chrome.tabs.create resolves: the tab exists, and its id and the platform
\* are recorded.  If it rejects, startAutomation rethrows into the handler's
\* catch.
TabCreated(r, ok) ==
    /\ UNCHANGED <<gvars, xvars>>
    /\ hq[r].pc = "createTab"
    /\ IF ok
       THEN /\ currentState' = [currentState EXCEPT !.tabId = r,
                                                    !.platform = hq[r].platform]
            /\ opened' = opened \cup {r}
            /\ hq' = [hq EXCEPT ![r] = DoneQuery]
       ELSE /\ hq' = [hq EXCEPT ![r] = [NewQuery EXCEPT !.pc = "catch"]]
            /\ UNCHANGED <<currentState, opened>>
    /\ UNCHANGED <<ens, sent, entered>>

\* A catch that resets the flow state before it returns.
CatchDoneReset(r) ==
    /\ UNCHANGED <<gvars, xvars>>
    /\ hq[r].pc = "catch"
    /\ hq' = [hq EXCEPT ![r] = DoneQuery]
    /\ currentState' = [status |-> "IDLE", data |-> NoIntent, tabId |-> NoTab,
                        platform |-> ""]
    /\ UNCHANGED <<ens, opened, sent, entered>>

\* The catch of handleUserQuery: awaits ErrorHandler.handle, logs, returns.
CatchDone(r) ==
    /\ UNCHANGED <<gvars, xvars>>
    /\ hq[r].pc = "catch"
    /\ hq' = [hq EXCEPT ![r] = DoneQuery]
    /\ UNCHANGED <<currentState, ens, opened, sent, entered>>

\* ------------------------------------------------------ executeNextStep
RECURSIVE SumOver(_, _)
SumOver(f, S) ==
    IF S = {} THEN 0
    ELSE LET x == CHOOSE y \in S : TRUE IN f[x] + SumOver(f, S \ {x})

\* The invocations of executeNextStep that have not returned.
Running == SumOver(ens, InvPcs \X Tabs)
At(pc, t) == ens[<<pc, t>>] > 0

Spawn(pc, t) ==
    /\ Running < MaxInv
    /\ ens' = [ens EXCEPT ![<<pc, t>>] = @ + 1]
Finish(pc, t) == ens' = [ens EXCEPT ![<<pc, t>>] = @ - 1]
Goto(pc, t, next) == ens' = [ens EXCEPT ![<<pc, t>>] = @ - 1, ![<<next, t>>] = @ + 1]

\* A guard that lets the page load of any tab through.
AnyTab(tabId) == tabId \in Tabs

\* The guard at the head of executeNextStep: a call for any tab but the
\* live one returns at once.
LiveTab(tabId) == tabId = currentState.tabId

\* A step that enters SELECTING as soon as the page load arrives, without
\* injecting the search script.
ExecuteNextStepSkipSearch(tabId) ==
    IF tabId # currentState.tabId
    THEN UNCHANGED <<currentState, ens, sent, entered>>
    ELSE IF currentState.status = "SEARCHING"
         THEN SetStatus("SELECTING", tabId) /\ UNCHANGED <<ens, sent>>
         ELSE /\ CASE currentState.status = "SELECTING" -> Spawn("sel_wait", tabId)
                    [] currentState.status = "PRODUCT_PAGE" -> Spawn("pp_wait", tabId)
                    [] currentState.status = "CHECKOUT_FLOW" -> Spawn("co_get", tabId)
                    [] OTHER -> UNCHANGED ens
              /\ UNCHANGED <<currentState, sent, entered>>

\* executeNextStep(tabId) from its entry to its first await.
ExecuteNextStep(tabId) ==
    IF ~LiveTab(tabId)
    THEN UNCHANGED <<currentState, ens, sent, entered>>
    ELSE /\ CASE currentState.status = "SEARCHING" ->
                    \* chrome.scripting.executeScript with the product
                    Spawn("search", tabId)
               [] currentState.status = "SELECTING" ->
                    \* two timers of 2000 ms in a row, nothing between them
                    Spawn("sel_wait", tabId)
               [] currentState.status = "PRODUCT_PAGE" ->
                    \* timer of 3000 ms
                    Spawn("pp_wait", tabId)
               [] currentState.status = "CHECKOUT_FLOW" ->
                    \* chrome.tabs.get(tabId)
                    Spawn("co_get", tabId)
               [] OTHER -> UNCHANGED ens
         /\ UNCHANGED <<currentState, sent, entered>>

\* The content script of tab t reports PAGE_LOADED; the listener calls
\* executeNextStep(sender.tab.id).
PageLoaded(t) ==
    /\ UNCHANGED <<gvars, xvars>>
    /\ t \in opened
    /\ ExecuteNextStep(t)
    /\ UNCHANGED <<hq, opened>>

\* SEARCHING: executeScript resolves and the status becomes SELECTING
\* whatever it is by now; if it rejects the invocation ends there.
SearchInjected(t, ok) ==
    /\ UNCHANGED <<gvars, xvars>>
    /\ At("search", t)
    /\ IF ok THEN SetStatus("SELECTING", t)
             ELSE UNCHANGED <<currentState, entered>>
    /\ Finish("search", t)
    /\ UNCHANGED <<hq, opened, sent>>

\* SELECTING: the timers have fired; GET_SEARCH_RESULTS goes to the tab.
SelWaitDone(t) ==
    /\ UNCHANGED <<gvars, xvars>>
    /\ At("sel_wait", t)
    /\ Goto("sel_wait", t, "sel_get1")
    /\ UNCHANGED <<currentState, hq, opened, sent, entered>>

\* What the page agent's answer is to the orchestrator: "items" a list whose
\* first item has a link, "nolink" a list whose first item has none, "empty"
\* no item, "error" a channel error, a null answer or the 10 s timeout.
Answers == {"items", "nolink", "empty", "error"}

\* A step that, finding no usable item, puts the flow back to SEARCHING.
ProcessResultsRestart(pc, t, answer) ==
    IF answer = "items"
    THEN /\ SetStatus("PRODUCT_PAGE", t)
         /\ Goto(pc, t, "sel_nav")
    ELSE /\ Finish(pc, t)
         /\ SetStatus("SEARCHING", t)

\* The answer is processed: with a first item that has a link the status
\* becomes PRODUCT_PAGE and chrome.tabs.update navigates the tab; otherwise
\* the step returns.
ProcessResults(pc, t, answer) ==
    IF answer = "items"
    THEN /\ SetStatus("PRODUCT_PAGE", t)
         /\ Goto(pc, t, "sel_nav")
    ELSE /\ Finish(pc, t)
         /\ UNCHANGED <<currentState, entered>>

SelFirstAnswer(t, answer) ==
    /\ UNCHANGED <<gvars, xvars>>
    /\ At("sel_get1", t)
    /\ IF answer = "error"
       THEN /\ Goto("sel_get1", t, "sel_retry_wait")       \* timer of 3000 ms
            /\ UNCHANGED <<currentState, entered>>
       ELSE ProcessResults("sel_get1", t, answer)
    /\ UNCHANGED <<hq, opened, sent>>

\* The timer has fired; GET_SEARCH_RESULTS goes to the tab again.
SelRetry(t) ==
    /\ UNCHANGED <<gvars, xvars>>
    /\ At("sel_retry_wait", t)
    /\ Goto("sel_retry_wait", t, "sel_get2")
    /\ UNCHANGED <<currentState, hq, opened, sent, entered>>

SelRetryAnswer(t, answer) ==
    /\ UNCHANGED <<gvars, xvars>>
    /\ At("sel_get2", t)
    /\ IF answer = "error"
       THEN /\ Finish("sel_get2", t)
            /\ UNCHANGED <<currentState, entered>>
       ELSE ProcessResults("sel_get2", t, answer)
    /\ UNCHANGED <<hq, opened, sent>>

\* chrome.tabs.update settles (a rejection is caught and logged).
SelNavDone(t) ==
    /\ UNCHANGED <<gvars, xvars>>
    /\ At("sel_nav", t)
    /\ Finish("sel_nav", t)
    /\ UNCHANGED <<currentState, hq, opened, sent, entered>>

\* PRODUCT_PAGE: the timer has fired; CLICK_BUY_NOW goes to the tab.
BuyNowSend(t) ==
    /\ UNCHANGED <<gvars, xvars>>
    /\ At("pp_wait", t)
    /\ SendBuyNow(t)
    /\ Goto("pp_wait", t, "pp_buy")
    /\ UNCHANGED <<currentState, hq, opened, entered>>

\* The agent answers CLICK_BUY_NOW: "success", "failure" (success false or
\* no answer object), or the send rejects ("throw", caught and logged).
BuyNowAnswers == {"success", "failure", "throw"}
BuyNowAnswer(t, answer) ==
    /\ UNCHANGED <<gvars, xvars>>
    /\ At("pp_buy", t)
    /\ CASE answer = "success" ->
              /\ SetStatus("CHECKOUT_FLOW", t)
              /\ Finish("pp_buy", t)
              /\ UNCHANGED sent
         [] answer = "failure" ->
              \* ADD_TO_CART goes to the tab
              /\ Goto("pp_buy", t, "pp_cart")
              /\ UNCHANGED <<currentState, sent, entered>>
         [] OTHER ->
              /\ Finish("pp_buy", t)
              /\ UNCHANGED <<currentState, sent, entered>>
    /\ UNCHANGED <<hq, opened>>

\* The agent answers ADD_TO_CART (or the send rejects): only logged.
CartAnswer(t) ==
    /\ UNCHANGED <<gvars, xvars>>
    /\ At("pp_cart", t)
    /\ Finish("pp_cart", t)
    /\ UNCHANGED <<currentState, hq, opened, sent, entered>>

\* CHECKOUT_FLOW: chrome.tabs.get resolves with the tab's URL; with a
\* confirmation marker in it the status becomes COMPLETED and
\* GET_ORDER_DETAILS goes to the tab.
TabUrlRead(t, confirmation) ==
    /\ UNCHANGED <<gvars, xvars>>
    /\ At("co_get", t)
    /\ IF confirmation
       THEN /\ SetStatus("COMPLETED", t)
            /\ Goto("co_get", t, "co_details")
       ELSE /\ Finish("co_get", t)
            /\ UNCHANGED <<currentState, entered>>
    /\ UNCHANGED <<hq, opened, sent>>

OrderDetailsAnswer(t) ==
    /\ UNCHANGED <<gvars, xvars>>
    /\ At("co_details", t)
    /\ Finish("co_details", t)
    /\ UNCHANGED <<currentState, hq, opened, sent, entered>>

\* ---------------------------------------------------------- specification
\* ====================================== submissions and their parse step
\* PROCESS_QUERY -> handleUserQuery -> retryAPICall(parseIntent) ->
\* generateContent, for submissions that run side by side and share the
\* response cache.  The candidates are the default models.
\* The JSON body a model returns for a text, whose text part is parseable as
\* JSON or is not.
Response(m, text, parseable) ==
    [model |-> m, prompt |-> text, sys |-> SystemPrompt(text), json |-> parseable]

\* resp: the response generateContent is about to return; bad: the response
\* whose parse error ended the last attempt, cached until badUntil.
NewParse == [pc |-> "new", text |-> "", attempt |-> 0, i |-> 0, resp |-> NoData,
             bad |-> NoData, badUntil |-> 0]

PInit ==
    /\ pq = [r \in Req |-> NewParse]
    /\ fetches = [text \in Prompts |-> 0]
    /\ rejected = [text \in Prompts |-> FALSE]

\* PROCESS_QUERY with the text: handleUserQuery runs to its awaits of
\* logger.clearLogs and chrome.storage.local.get.
SubmitQuery(r, text) ==
    /\ UNCHANGED <<ovars, gvars, yvars>>
    /\ pq[r].pc = "new"
    /\ pq' = [pq EXCEPT ![r] = [NewParse EXCEPT !.pc = "getKey", !.text = text]]
    /\ UNCHANGED <<fetches, rejected>>

\* retryWithBackoff after an attempt of parseIntent threw: it waits for
\* another attempt or gives up.
AfterThrow(q, retryable) ==
    IF retryable /\ q.attempt < ParseMaxRetries THEN "backoff" ELSE "failed"

\* parseIntent has the response: JSON.parse of its text returns the intent
\* or throws IntentParseError.
ParseResponse(q, response, until, retryable) ==
    IF response.json
    THEN [q EXCEPT !.pc = "parsed", !.resp = NoData, !.bad = NoData, !.badUntil = 0]
    ELSE [q EXCEPT !.pc = AfterThrow(q, retryable), !.resp = NoData,
                   !.bad = response, !.badUntil = until]

\* parseIntent calls generateContent(apiKey, text, systemPrompt): the cache
\* lookup, on a hit the parse of the cached response, and on a miss the await
\* of getAvailableModels.
LookupResponse(r, attempt, retryable) ==
    LET text == pq[r].text
        key == GeminiCacheKey(text, SystemPrompt(text), "")
        cached == CacheGet(cacheStore, key, now)
        q == [pq[r] EXCEPT !.attempt = attempt]
    IN  /\ cacheStore' = CacheAfterGet(cacheStore, key, now)
        /\ pq' = [pq EXCEPT ![r] =
                     IF cached # NoData
                     THEN ParseResponse(q, cached,
                                        cacheStore[CacheIndex(cacheStore, key)].expiresAt,
                                        retryable)
                     ELSE [q EXCEPT !.pc = "models"]]

\* The key is read (present): retryAPICall makes the first parseIntent call.
StartParse(r, retryable) ==
    /\ UNCHANGED <<ovars, yvars, now, availableModelsCache, storage, call, ncalls, lastSuccess, cachedFor>>
    /\ pq[r].pc = "getKey"
    /\ LookupResponse(r, 0, retryable)
    /\ UNCHANGED <<fetches, rejected>>

\* getAvailableModels settles; chrome.storage.local.get is awaited.
ParseModelsListed(r) ==
    /\ UNCHANGED <<ovars, gvars, yvars>>
    /\ pq[r].pc = "models"
    /\ pq' = [pq EXCEPT ![r].pc = "storage"]
    /\ UNCHANGED <<fetches, rejected>>

\* fetch(url) for a candidate: one more request for the text.
SendFetch(text) ==
    /\ fetches[text] < MaxFetches
    /\ fetches' = [fetches EXCEPT ![text] = @ + 1]

\* The store read settles; the loop starts and fetches the first candidate.
ParseStorageRead(r) ==
    /\ UNCHANGED <<ovars, gvars, yvars>>
    /\ pq[r].pc = "storage"
    /\ pq' = [pq EXCEPT ![r].pc = "fetch", ![r].i = 1]
    /\ SendFetch(pq[r].text)
    /\ UNCHANGED rejected

\* generateContent threw; parseIntent wraps the error and retryWithBackoff
\* either waits for another attempt or gives up.
ParseThrew(r, retryable) ==
    pq' = [pq EXCEPT ![r].pc = AfterThrow(pq[r], retryable),
                     ![r].bad = NoData, ![r].badUntil = 0]

\* A client that keeps only the responses whose text parses.
CacheParseableResponse(store, text, response, t) ==
    IF response.json
    THEN CacheSet(store, GeminiCacheKey(text, SystemPrompt(text), ""), response,
                  ResponseTTL, t)
    ELSE store

\* cache.set(cacheKey, data, 2 * 60 * 1000)
CacheResponse(store, text, response, t) ==
    CacheSet(store, GeminiCacheKey(text, SystemPrompt(text), ""), response, ResponseTTL, t)

\* The fetch of candidate i settles with a status and, on 200, a body.
ParseFetchAnswered(r, status, retryable, parseable) ==
    /\ UNCHANGED <<ovars, yvars, now, availableModelsCache, storage, call, ncalls, lastSuccess>>
    /\ pq[r].pc = "fetch"
    /\ LET text == pq[r].text
           model == GEMINI_MODELS[pq[r].i]
       IN  /\ rejected' = [rejected EXCEPT ![text] = @ \/ status # 200]
           /\ IF status = 200
              THEN /\ cacheStore' = CacheResponse(cacheStore, text,
                                                  Response(model, text, parseable), now)
                   /\ cachedFor' = [cachedFor EXCEPT
                                       ![GeminiCacheKey(text, SystemPrompt(text), "")] =
                                           Arguments(text, SystemPrompt(text), "", now)]
                   /\ pq' = [pq EXCEPT ![r].pc = "write",
                                       ![r].resp = Response(model, text, parseable),
                                       ![r].badUntil = now + ResponseTTL]
                   /\ UNCHANGED fetches
              ELSE /\ UNCHANGED <<cacheStore, cachedFor>>
                   /\ IF QuotaStatus(status) /\ pq[r].i < Len(GEMINI_MODELS)
                      THEN /\ pq' = [pq EXCEPT ![r].i = @ + 1]
                           /\ SendFetch(text)
                      ELSE /\ ParseThrew(r, retryable)
                           /\ UNCHANGED fetches

\* The working-model write settles; generateContent returns the response
\* and parseIntent parses it.
ParseWritten(r, retryable) ==
    /\ UNCHANGED <<ovars, gvars, yvars>>
    /\ pq[r].pc = "write"
    /\ pq' = [pq EXCEPT ![r] = ParseResponse(pq[r], pq[r].resp, pq[r].badUntil, retryable)]
    /\ UNCHANGED <<fetches, rejected>>

\* The backoff timer fires: the next parseIntent call.
ParseBackoffDone(r, retryable) ==
    /\ UNCHANGED <<ovars, yvars, now, availableModelsCache, storage, call, ncalls, lastSuccess, cachedFor>>
    /\ pq[r].pc = "backoff"
    /\ LookupResponse(r, pq[r].attempt + 1, retryable)
    /\ UNCHANGED <<fetches, rejected>>

\* ================================================================= retry.js
\* What a caller passes as options; 0 and {} stand for a field left out
\* (like 0 itself, it is falsy and replaced by the default).
RetryOptions ==
    [maxRetries : 0 .. MaxOptRetries, initialDelay : {0, 500}, maxDelay : {0, 1500},
     multiplier : {0, 3}, retryableErrors : {{}, {"APIError", "IntentParseError"}},
     onRetry : BOOLEAN]

\* new RetryConfig(options): options.x || default
RetryConfig(options) ==
    [maxRetries |-> IF options.maxRetries # 0 THEN options.maxRetries ELSE DefaultMaxRetries,
     initialDelay |-> IF options.initialDelay # 0 THEN options.initialDelay
                      ELSE DefaultInitialDelay,
     maxDelay |-> IF options.maxDelay # 0 THEN options.maxDelay ELSE DefaultMaxDelay,
     multiplier |-> IF options.multiplier # 0 THEN options.multiplier ELSE DefaultMultiplier,
     retryableErrors |-> options.retryableErrors,
     onRetry |-> options.onRetry]

\* The errors an operation raises: the class name, whether the message
\* includes 'network', and the statusCode / status (0 for none).
RetryErrors ==
    [name : {"NetworkError", "APIError", "TypeError"}, network : BOOLEAN,
     status : {0, 404, 429, 500}]
NoRetryError == [name |-> "", network |-> FALSE, status |-> 0]

\* Math.random() in tenths.
Randoms == {0, 5, 9}

RECURSIVE Pow(_, _)
Pow(b, n) == IF n = 0 THEN 1 ELSE b * Pow(b, n - 1)

\* A delay that grows from the attempt after.
BaseDelayNext(attempt, config) ==
    LET d == config.initialDelay * Pow(config.multiplier, attempt + 1)
    IN  IF d < config.maxDelay THEN d ELSE config.maxDelay

\* Math.min(initialDelay * multiplier ** attempt, maxDelay)
BaseDelay(attempt, config) ==
    LET d == config.initialDelay * Pow(config.multiplier, attempt)
    IN  IF d < config.maxDelay THEN d ELSE config.maxDelay

\* calculateDelay: delay + Math.random() * 0.3 * delay
calculateDelay(attempt, config, random) ==
    LET delay == BaseDelay(attempt, config)
    IN  delay + (random * JitterPercent * delay) \div 1000

isRetryable(error, config) ==
    IF error.name = "NetworkError" \/ error.network THEN TRUE
    ELSE IF error.status # 0 THEN error.status >= 500 \/ error.status = 429
    ELSE IF config.retryableErrors # {} THEN error.name \in config.retryableErrors
    ELSE FALSE

\* A catch that rethrows nothing.
NeverRethrows(error, config) == FALSE

\* if (!isRetryable(error, config)) throw error
Rethrows(error, config) == ~isRetryable(error, config)

\* A loop that stops one attempt early.
LastAttemptEarly(attempt, config) == attempt + 1 >= config.maxRetries

\* if (attempt >= config.maxRetries) break
LastAttempt(attempt, config) == attempt >= config.maxRetries

NoRetry ==
    [pc |-> "idle", options |-> CHOOSE o \in RetryOptions : TRUE,
     config |-> RetryConfig(CHOOSE o \in RetryOptions : TRUE),
     attempt |-> 0, lastError |-> NoRetryError, raised |-> NoRetryError,
     error |-> NoRetryError, calls |-> 0, waits |-> 0, onRetries |-> 0, delay |-> 0]

RInit == rw = NoRetry

\* retryWithBackoff(fn, new RetryConfig(options)) up to the first await fn().
RetryWithBackoff(options) ==
    /\ UNCHANGED <<ovars, gvars, pvars, zvars>>
    /\ rw.pc = "idle"
    /\ rw' = [NoRetry EXCEPT !.pc = "call", !.options = options,
                             !.config = RetryConfig(options), !.calls = 1]

\* fn() resolves: its result is returned.
AttemptSucceeded ==
    /\ UNCHANGED <<ovars, gvars, pvars, zvars>>
    /\ rw.pc = "call"
    /\ rw' = [rw EXCEPT !.pc = "returned"]

\* fn() rejects with an error: the catch of the loop.  The onRetry callback,
\* when there is one, is awaited before the timer.
AttemptFailed(error, random) ==
    /\ UNCHANGED <<ovars, gvars, pvars, zvars>>
    /\ rw.pc = "call"
    /\ LET caught == [rw EXCEPT !.lastError = error, !.raised = error]
       IN  rw' = IF Rethrows(error, rw.config)
                 THEN [caught EXCEPT !.pc = "threw", !.error = error]
                 ELSE IF LastAttempt(rw.attempt, rw.config)
                 THEN [caught EXCEPT !.pc = "threw", !.error = caught.lastError]
                 ELSE IF rw.config.onRetry
                 THEN [caught EXCEPT !.pc = "onRetry", !.onRetries = @ + 1,
                         !.delay = calculateDelay(rw.attempt, rw.config, random)]
                 ELSE [caught EXCEPT !.pc = "delay",
                         !.delay = calculateDelay(rw.attempt, rw.config, random)]

\* config.onRetry(attempt + 1, error, delay) returns; the timer is set.
OnRetryDone ==
    /\ UNCHANGED <<ovars, gvars, pvars, zvars>>
    /\ rw.pc = "onRetry"
    /\ rw' = [rw EXCEPT !.pc = "delay"]

\* The timer fires: the next turn of the loop calls fn() again.
DelayDone ==
    /\ UNCHANGED <<ovars, gvars, pvars, zvars>>
    /\ rw.pc = "delay"
    /\ rw' = [rw EXCEPT !.pc = "call", !.attempt = @ + 1, !.waits = @ + 1,
                        !.calls = @ + 1]

\* ==================================================== ecommerce-platforms.js
\* Strings are sequences of pieces, so that url.includes(domain) is a test
\* for a run of pieces.  The platforms the service worker registers:
SWPlatforms ==
    { [name |-> "amazon",
       domains |-> << <<"amazon", ".in">>, <<"amazon", ".com">>, <<"amazon", ".co.uk">>,
                      <<"amazon", ".de">>, <<"amazon", ".fr">> >>],
      [name |-> "flipkart", domains |-> << <<"flipkart", ".com">> >>],
      [name |-> "ebay", domains |-> << <<"ebay", ".com">>, <<"ebay", ".in">> >>],
      [name |-> "walmart", domains |-> << <<"walmart", ".com">> >>] }

\* URLs, as scheme, host and the rest.
Urls ==
    { [scheme |-> <<"https://">>, host |-> <<"www.", "flipkart", ".com">>, rest |-> <<"/x">>],
      [scheme |-> <<"https://">>, host |-> <<"www.", "amazon", ".in">>, rest |-> <<"/">>],
      [scheme |-> <<"https://">>, host |-> <<"ebay", ".com">>, rest |-> <<"/itm/1">>],
      [scheme |-> <<"https://">>, host |-> <<"www.", "etsy", ".com">>, rest |-> <<"/">>],
      [scheme |-> <<"https://">>, host |-> <<"www.", "etsy", ".com">>,
       rest |-> <<"/?ref=", "amazon", ".com">>],
      [scheme |-> <<"https://">>, host |-> <<"not", "flipkart", ".com">>, rest |-> <<"/">>],
      [scheme |-> <<"https://">>, host |-> <<"www.", "ebay", ".com">>,
       rest |-> <<"/itm/", "walmart", ".com">>] }
UrlString(url) == url.scheme \o url.host \o url.rest

\* String.prototype.includes
Includes(string, part) ==
    \E k \in 0 .. Len(string) - Len(part) : SubSeq(string, k + 1, k + Len(part)) = part

\* EcommercePlatform.matches: this.domains.some(domain => url.includes(domain))
matches(platform, url) ==
    \E k \in 1 .. Len(platform.domains) : Includes(UrlString(url), platform.domains[k])

\* Map.set(platform.name, platform): a name already present keeps its place.
MapSet(map, platform) ==
    IF \E k \in 1 .. Len(map) : map[k].name = platform.name
    THEN [k \in 1 .. Len(map) |-> IF map[k].name = platform.name THEN platform ELSE map[k]]
    ELSE Append(map, platform)

\* getByUrl: the name of the first platform, in Map order, that matches; ""
\* for null.
getByUrl(map, url) ==
    IF \E k \in 1 .. Len(map) : matches(map[k], url)
    THEN map[CHOOSE k \in 1 .. Len(map) :
                /\ matches(map[k], url)
                /\ \A j \in 1 .. k - 1 : ~matches(map[j], url)].name
    ELSE ""

NoLookup == [done |-> FALSE, url |-> CHOOSE u \in Urls : TRUE, result |-> ""]

UInit ==
    /\ platforms = <<>>
    /\ lookup = NoLookup

\* platformRegistry.register(platform)
Register(platform) ==
    /\ UNCHANGED <<ovars, gvars, pvars, rvars, tvars>>
    /\ platforms' = MapSet(platforms, platform)
    /\ lookup' = NoLookup

\* platformRegistry.getByUrl(url)
GetByUrl(url) ==
    /\ UNCHANGED <<ovars, gvars, pvars, rvars, tvars>>
    /\ lookup' = [done |-> TRUE, url |-> url, result |-> getByUrl(platforms, url)]
    /\ UNCHANGED platforms

\* ====================================================== waitForCondition
\* options.timeout and options.interval in ms; 0 stands for an option that
\* is absent or 0.
WaitOptions == [timeout : {0, 1000, 2000}, interval : {0, 500, 1000}]
\* What a call of the condition can resolve with.
TruthyValues == {"true", "1", "element"}
FalsyValues == {"false", "0", "null"}
ConditionValues == TruthyValues \cup FalsyValues
\* How long a call of the condition takes, and how late a timer fires.
PollTimes == {0, 500, MaxPollTime}
Lates == {0, MaxLate}

NoWait ==
    [pc |-> "idle", timeout |-> 0, interval |-> 0, startTime |-> 0, now |-> 0,
     pollStart |-> 0, polls |-> 0, raised |-> 0, seen |-> "", result |-> ""]

WInit == wc = NoWait

\* A test that takes everything but null for a result.
NotNull(result) == result # "null"

\* if (result)
Truthy(result) == result \in TruthyValues

\* while (Date.now() - startTime < timeout): the condition is called again,
\* or the loop ends and the timeout error is thrown.
LoopHead(w) ==
    IF w.now - w.startTime < w.timeout
    THEN [w EXCEPT !.pc = "poll", !.polls = @ + 1, !.pollStart = w.now]
    ELSE [w EXCEPT !.pc = "threw"]

\* waitForCondition(condition, options) up to the first call of condition.
WaitForCondition(options) ==
    /\ UNCHANGED <<ovars, gvars, pvars, rvars, uvars, svars, cvars, avars>>
    /\ wc.pc = "idle"
    /\ wc' = LoopHead([wc EXCEPT
                 !.timeout = IF options.timeout # 0 THEN options.timeout
                             ELSE WaitDefaultTimeout,
                 !.interval = IF options.interval # 0 THEN options.interval
                              ELSE WaitDefaultInterval,
                 !.startTime = wc.now])

\* condition() resolves with result after elapsed ms: a truthy result is
\* returned, after any other the timer of interval ms is set.
PollReturned(result, elapsed) ==
    /\ UNCHANGED <<ovars, gvars, pvars, rvars, uvars, svars, cvars, avars>>
    /\ wc.pc = "poll"
    /\ LET w == [wc EXCEPT !.now = @ + elapsed,
                           !.seen = IF @ = "" /\ result \in TruthyValues
                                    THEN result ELSE @]
       IN  wc' = IF Truthy(result)
                 THEN [w EXCEPT !.pc = "returned", !.result = result]
                 ELSE [w EXCEPT !.pc = "sleep"]

\* condition() throws or rejects after elapsed ms: the error is ignored and
\* the timer is set.
PollRaised(elapsed) ==
    /\ UNCHANGED <<ovars, gvars, pvars, rvars, uvars, svars, cvars, avars>>
    /\ wc.pc = "poll"
    /\ wc' = [wc EXCEPT !.pc = "sleep", !.now = @ + elapsed, !.raised = @ + 1]

\* The timer fires, interval ms after it was set or later, and the loop
\* condition is tested.
TimerFired(late) ==
    /\ UNCHANGED <<ovars, gvars, pvars, rvars, uvars, svars, cvars, avars>>
    /\ wc.pc = "sleep"
    /\ wc' = LoopHead([wc EXCEPT !.now = @ + wc.interval + late])

\* ================================== GET_SEARCH_RESULTS and the selection
\* The storefronts whose content script answers GET_SEARCH_RESULTS.
Storefronts == {"amazon", "flipkart"}
\* What a link selector finds in a result element: nothing, an anchor
\* without href, a product link, or a sponsored (/sspa/) link.
Links == {"none", "nohref", "product", "sspa"}
\* A result element of the page: whether it is marked sponsored, whether it
\* has a title, and what the first and the second link selector find in it.
Elements == [sponsored : BOOLEAN, title : BOOLEAN, first : Links, second : Links]
Pages == UNION {[1 .. n -> Elements] : n \in 0 .. MaxResults}

\* el.href of what a selector found.
Href(link) == IF link \in {"none", "nohref"} THEN "" ELSE link

\* amazon.js: the link selectors are tried in order until one finds an
\* anchor with an href outside /sspa/; otherwise what the last one found.
AmazonLink(el) ==
    IF Href(el.first) # "" /\ el.first # "sspa" THEN el.first ELSE el.second

\* amazon.js: the elements not marked sponsored that have a title element
\* and a link element, in page order.
RECURSIVE AmazonItems(_, _)
AmazonItems(page, k) ==
    IF k > Len(page) THEN <<>>
    ELSE LET el == page[k]
             linkEl == AmazonLink(el)
         IN  (IF ~el.sponsored /\ el.title /\ linkEl # "none"
              THEN <<[index |-> k, link |-> Href(linkEl)]>> ELSE <<>>)
             \o AmazonItems(page, k + 1)

\* extractProducts: the link selector, then the fallbacks; the containers
\* with a title and a link, in page order.
RECURSIVE extractProducts(_, _)
extractProducts(page, k) ==
    IF k > Len(page) THEN <<>>
    ELSE LET el == page[k]
             linkElement == IF el.first # "none" THEN el.first ELSE el.second
         IN  (IF el.title /\ Href(linkElement) # ""
              THEN <<[index |-> k, link |-> Href(linkElement)]>> ELSE <<>>)
             \o extractProducts(page, k + 1)

\* The items a storefront's content script answers GET_SEARCH_RESULTS with:
\* amazon.js filters the sponsored elements, FlipkartPlatform returns what
\* extractProducts gives.
getSearchResults(storefront, page) ==
    IF storefront = "amazon" THEN AmazonItems(page, 1) ELSE extractProducts(page, 1)

NoSelection ==
    [pc |-> "idle", storefront |-> "amazon", page |-> <<>>, items |-> <<>>, chosen |-> 0]

SInit == sr = NoSelection

\* The content script of a storefront tab showing page answers
\* GET_SEARCH_RESULTS.
GetSearchResults(storefront, page) ==
    /\ sr.pc = "idle"
    /\ UNCHANGED <<ovars, gvars, pvars, rvars, uvars, wvars, cvars, avars>>
    /\ sr' = [pc |-> "reported", storefront |-> storefront, page |-> page,
              items |-> getSearchResults(storefront, page), chosen |-> 0]

\* The SELECTING step takes items[0]; with a link it navigates the tab to
\* it, without one or without items it only logs.
SelectBestItem ==
    /\ sr.pc = "reported"
    /\ UNCHANGED <<ovars, gvars, pvars, rvars, uvars, wvars, cvars, avars>>
    /\ sr' = IF sr.items = <<>> THEN [sr EXCEPT !.pc = "none"]
             ELSE IF sr.items[1].link = "" THEN [sr EXCEPT !.pc = "nolink"]
             ELSE [sr EXCEPT !.pc = "navigated", !.chosen = sr.items[1].index]

\* ====================================================== address-manager.js
\* What callers pass: an id, the required fields (name stands for them: ""
\* fails validate) and isDefault; in updates a field may be absent.
AddressIds == {"addr_1", "addr_2"}
AddressData == [id : AddressIds, name : {"", "Asha"}, isDefault : BOOLEAN]
AddressUpdates == [name : {"absent", "", "Asha"}, isDefault : {"absent", "true", "false"}]

\* defaultAddress = null
NoAddress == 0

AInit == am = [addresses |-> <<>>, defaultAddress |-> NoAddress, stored |-> <<>>, adds |-> 0]

\* Address.validate
Valid(address) == address.name # ""

\* addresses.find(addr => addr.id === addressId), as an index (0: not found)
FindAddress(addresses, id) ==
    IF \E k \in 1 .. Len(addresses) : addresses[k].id = id
    THEN CHOOSE k \in 1 .. Len(addresses) :
            /\ addresses[k].id = id
            /\ \A j \in 1 .. k - 1 : addresses[j].id # id
    ELSE 0

\* addresses.forEach(addr => { addr.isDefault = false; })
UnsetDefaults(addresses) ==
    [k \in 1 .. Len(addresses) |-> [addresses[k] EXCEPT !.isDefault = FALSE]]

\* save(): chrome.storage.local.set({ retailAgentAddresses: this.addresses })
Save(addresses, ok) == IF ok THEN addresses ELSE am.stored

\* addAddress(addressData); ref tells the Address objects apart.
AddAddress(data, ok) ==
    /\ am.adds < MaxAdds
    /\ LET address == [ref |-> am.adds + 1, id |-> data.id, name |-> data.name,
                       isDefault |-> data.isDefault]
           first == Len(am.addresses) = 0 \/ address.isDefault
           addresses == IF first
                        THEN Append(UnsetDefaults(am.addresses),
                                    [address EXCEPT !.isDefault = TRUE])
                        ELSE Append(am.addresses, address)
       IN  am' = IF ~Valid(address)
                 THEN [am EXCEPT !.adds = @ + 1]
                 ELSE [am EXCEPT !.adds = @ + 1,
                                 !.addresses = addresses,
                                 !.defaultAddress = IF first THEN address.ref ELSE @,
                                 !.stored = Save(addresses, ok)]
    /\ UNCHANGED <<ovars, gvars, pvars, rvars, uvars, wvars, svars, cvars>>

\* updateAddress(addressId, updates): Object.assign comes before validate
\* and before the test of the default change.
UpdateAddress(id, updates, ok) ==
    /\ LET k == FindAddress(am.addresses, id)
           address == am.addresses[k]
           assigned == [address EXCEPT
                           !.name = IF updates.name = "absent" THEN @ ELSE updates.name,
                           !.isDefault = IF updates.isDefault = "absent" THEN @
                                         ELSE updates.isDefault = "true"]
           change == updates.isDefault = "true" /\ ~assigned.isDefault
           addresses == IF change
                        THEN [UnsetDefaults(am.addresses) EXCEPT
                                 ![k] = [assigned EXCEPT !.isDefault = TRUE]]
                        ELSE [am.addresses EXCEPT ![k] = assigned]
       IN  am' = IF k = 0 THEN am
                 ELSE IF ~Valid(assigned)
                 THEN [am EXCEPT !.addresses[k] = assigned]
                 ELSE [am EXCEPT !.addresses = addresses,
                                 !.defaultAddress = IF change THEN address.ref ELSE @,
                                 !.stored = Save(addresses, ok)]
    /\ UNCHANGED <<ovars, gvars, pvars, rvars, uvars, wvars, svars, cvars>>

\* deleteAddress(addressId)
DeleteAddress(id, ok) ==
    /\ LET k == FindAddress(am.addresses, id)
           address == am.addresses[k]
           rest == RemoveAt(am.addresses, k)
           addresses == IF address.isDefault /\ Len(rest) > 0
                        THEN [rest EXCEPT ![1].isDefault = TRUE]
                        ELSE rest
       IN  am' = IF k = 0 THEN am
                 ELSE [am EXCEPT !.addresses = addresses,
                                 !.defaultAddress =
                                     IF address.isDefault /\ Len(rest) > 0 THEN rest[1].ref
                                     ELSE IF Len(rest) = 0 THEN NoAddress
                                     ELSE @,
                                 !.stored = Save(addresses, ok)]
    /\ UNCHANGED <<ovars, gvars, pvars, rvars, uvars, wvars, svars, cvars>>

\* setDefaultAddress(addressId)
SetDefaultAddress(id, ok) ==
    /\ LET k == FindAddress(am.addresses, id)
           addresses == [UnsetDefaults(am.addresses) EXCEPT ![k].isDefault = TRUE]
       IN  am' = IF k = 0 THEN am
                 ELSE [am EXCEPT !.addresses = addresses,
                                 !.defaultAddress = am.addresses[k].ref,
                                 !.stored = Save(addresses, ok)]
    /\ UNCHANGED <<ovars, gvars, pvars, rvars, uvars, wvars, svars, cvars>>

\* ===================================================== cache.js: operations
\* Keys the callers use: those of the responses cached first, then others.
HotKeys == {1001, 1002}
OpKeys == {1} \cup HotKeys
TTLs == {ResponseTTL, DefaultTTL}

\* The store after the first n responses were cached at minute 0, one set
\* each and none into a full store, with the two times to live in turn.
Warmed(n) ==
    [k \in 1 .. n |-> [key |-> k, data |-> "response",
                       expiresAt |-> IF k % 2 = 0 THEN ResponseTTL ELSE DefaultTTL]]

NoOperation == [op |-> "", key |-> 0]
CInit == cs = [store |-> <<>>, now |-> 0, last |-> NoOperation]

\* The cache after the first MaxWarm responses were cached.
CInitWarm == cs = [store |-> Warmed(MaxWarm), now |-> 0, last |-> NoOperation]

\* cache.set(key, value, ttl)
CacheSetCall(key, ttl) ==
    /\ cs' = [cs EXCEPT !.store = CacheSet(cs.store, key, "response", ttl, cs.now),
                        !.last = [op |-> "set", key |-> key]]
    /\ UNCHANGED <<ovars, gvars, pvars, rvars, uvars, wvars, svars, avars>>

\* cache.get(key)
CacheGetCall(key) ==
    /\ cs' = [cs EXCEPT !.store = CacheAfterGet(cs.store, key, cs.now),
                        !.last = [op |-> "get", key |-> key]]
    /\ UNCHANGED <<ovars, gvars, pvars, rvars, uvars, wvars, svars, avars>>

\* cache.delete(key)
CacheDeleteCall(key) ==
    /\ cs' = [cs EXCEPT !.store = IF CacheIndex(cs.store, key) = 0 THEN cs.store
                                  ELSE RemoveAt(cs.store, CacheIndex(cs.store, key)),
                        !.last = [op |-> "delete", key |-> key]]
    /\ UNCHANGED <<ovars, gvars, pvars, rvars, uvars, wvars, svars, avars>>

\* cache.clear()
CacheClearCall ==
    /\ cs' = [cs EXCEPT !.store = <<>>, !.last = [op |-> "clear", key |-> 0]]
    /\ UNCHANGED <<ovars, gvars, pvars, rvars, uvars, wvars, svars, avars>>

\* cache.clean(), also run by the interval timer: expired entries go.
CacheCleanCall ==
    /\ cs' = [cs EXCEPT !.store = SelectSeq(cs.store, LAMBDA e : ~isExpired(e, cs.now)),
                        !.last = [op |-> "clean", key |-> 0]]
    /\ UNCHANGED <<ovars, gvars, pvars, rvars, uvars, wvars, svars, avars>>

\* A minute passes.
CacheTick ==
    /\ cs.now < MaxCacheTicks
    /\ cs' = [cs EXCEPT !.now = @ + 1, !.last = [op |-> "tick", key |-> 0]]
    /\ UNCHANGED <<ovars, gvars, pvars, rvars, uvars, wvars, svars, avars>>

Next ==
    \/ \E t \in Tabs : PageLoaded(t)
    \/ \E r \in Req : ProcessQuery(r)
    \/ \E r \in Req, present \in BOOLEAN : GetApiKey(r, present)
    \/ \E r \in Req : NoKeyReturn(r)
    \/ \E r \in Req, retryable \in BOOLEAN : ParseFailed(r, retryable)
    \/ \E r \in Req : BackoffDone(r)
    \/ \E r \in Req, pref \in Preferred : \E intent \in Intents(r) :
          ParseSucceeded(r, intent, pref)
    \/ \E r \in Req, ok \in BOOLEAN : TabCreated(r, ok)
    \/ \E r \in Req : CatchDone(r)
    \/ \E t \in Tabs, ok \in BOOLEAN : SearchInjected(t, ok)
    \/ \E t \in Tabs : SelWaitDone(t)
    \/ \E t \in Tabs, answer \in Answers : SelFirstAnswer(t, answer)
    \/ \E t \in Tabs : SelRetry(t)
    \/ \E t \in Tabs, answer \in Answers : SelRetryAnswer(t, answer)
    \/ \E t \in Tabs : SelNavDone(t)
    \/ \E t \in Tabs : BuyNowSend(t)
    \/ \E t \in Tabs, answer \in BuyNowAnswers : BuyNowAnswer(t, answer)
    \/ \E t \in Tabs : CartAnswer(t)
    \/ \E t \in Tabs, confirmation \in BOOLEAN : TabUrlRead(t, confirmation)
    \/ \E t \in Tabs : OrderDetailsAnswer(t)

\* One generateContent call after another, with the clock running.
NextGemini ==
    \/ Tick
    \/ \E apiKey \in ApiKeys, prompt \in Prompts, sys \in SystemInstructions,
          modelName \in ModelNames : GenerateContent(apiKey, prompt, sys, modelName)
    \/ \E listed \in BOOLEAN : GetAvailableModels(listed)
    \/ \E ok \in BOOLEAN : StorageRead(ok)
    \/ \E status \in Statuses : FetchAnswered(status)
    \/ \E ok \in BOOLEAN : StorageWritten(ok)

\* Submissions side by side, with the clock running.
NextParse ==
    \/ Tick
    \/ \E r \in Req, text \in Prompts : SubmitQuery(r, text)
    \/ \E r \in Req, retryable \in BOOLEAN : StartParse(r, retryable)
    \/ \E r \in Req : ParseModelsListed(r)
    \/ \E r \in Req : ParseStorageRead(r)
    \/ \E r \in Req, status \in Statuses, retryable \in BOOLEAN, parseable \in BOOLEAN :
          ParseFetchAnswered(r, status, retryable, parseable)
    \/ \E r \in Req, retryable \in BOOLEAN : ParseWritten(r, retryable)
    \/ \E r \in Req, retryable \in BOOLEAN : ParseBackoffDone(r, retryable)

\* One retryWithBackoff call.
NextRetry ==
    \/ \E options \in RetryOptions : RetryWithBackoff(options)
    \/ AttemptSucceeded
    \/ \E error \in RetryErrors, random \in Randoms : AttemptFailed(error, random)
    \/ OnRetryDone
    \/ DelayDone

\* Registrations and lookups by URL.
NextRegistry ==
    \/ \E platform \in SWPlatforms : Register(platform)
    \/ \E url \in Urls : GetByUrl(url)

\* One waitForCondition call.
NextWait ==
    \/ \E options \in WaitOptions : WaitForCondition(options)
    \/ \E result \in ConditionValues, elapsed \in PollTimes : PollReturned(result, elapsed)
    \/ \E elapsed \in PollTimes : PollRaised(elapsed)
    \/ \E late \in Lates : TimerFired(late)

\* Every call of the condition settles, and every timer fires.
WaitFairness ==
    /\ WF_wvars((\E result \in ConditionValues, elapsed \in PollTimes :
                      PollReturned(result, elapsed))
                \/ \E elapsed \in PollTimes : PollRaised(elapsed))
    /\ WF_wvars(\E late \in Lates : TimerFired(late))

\* A results page, its report and the choice made from it.
NextSelect ==
    \/ \E storefront \in Storefronts, page \in Pages : GetSearchResults(storefront, page)
    \/ SelectBestItem

NextCache ==
    \/ \E key \in OpKeys, ttl \in TTLs : CacheSetCall(key, ttl)
    \/ \E key \in OpKeys : CacheGetCall(key)
    \/ \E key \in OpKeys : CacheDeleteCall(key)
    \/ CacheClearCall
    \/ CacheCleanCall
    \/ CacheTick

NextAddress ==
    \/ \E data \in AddressData, ok \in BOOLEAN : AddAddress(data, ok)
    \/ \E id \in AddressIds, updates \in AddressUpdates, ok \in BOOLEAN :
          UpdateAddress(id, updates, ok)
    \/ \E id \in AddressIds, ok \in BOOLEAN : DeleteAddress(id, ok)
    \/ \E id \in AddressIds, ok \in BOOLEAN : SetDefaultAddress(id, ok)

vars == <<ovars, gvars, xvars>>
Init == OInit /\ GInit /\ PInit /\ RInit /\ UInit /\ WInit /\ SInit /\ CInit /\ AInit
\* The same, with the response cache as it is after MaxWarm responses.
InitWarm == OInit /\ GInit /\ PInit /\ RInit /\ UInit /\ WInit /\ SInit /\ CInitWarm /\ AInit

\* The orchestrator: requests, page loads and the steps they start.
Spec == Init /\ [][Next]_vars
\* The model client: generateContent calls.
SpecGemini == Init /\ [][NextGemini]_vars
\* The parse step of concurrent submissions.
SpecParse == Init /\ [][NextParse]_vars
\* retryWithBackoff.
SpecRetry == Init /\ [][NextRetry]_vars
\* The platform registry.
SpecRegistry == Init /\ [][NextRegistry]_vars
\* The selection of a product from a results page.
SpecSelect == Init /\ [][NextSelect]_vars
\* waitForCondition, with a condition whose calls settle.
SpecCache == InitWarm /\ [][NextCache]_vars

SpecAddress == Init /\ [][NextAddress]_vars

SpecWait == Init /\ [][NextWait]_vars /\ WaitFairness

\* ------------------------------------------------------------------ claims
\* Request r has been superseded: a later request has been parsed, has
\* recorded its intent and its tab, and its handler has returned.
Superseded(r) ==
    \E q \in Req : /\ q > r
                   /\ hq[q].pc = "done"
                   /\ currentState.tabId = q
                   /\ currentState.data.req = q

\* The requests in flight to tab t that change the storefront:
\* CLICK_BUY_NOW and ADD_TO_CART awaiting their answers.
MutatingInFlight(t) == ens[<<"pp_buy", t>>] + ens[<<"pp_cart", t>>]

\* C1: once a later request has superseded request r, no CLICK_BUY_NOW or
\* ADD_TO_CART is sent to r's tab any more, not even by an executeNextStep
\* invocation that was suspended when the later request arrived.
C1_NoOrphanedMutation ==
    [][\A r \in Req : Superseded(r) =>
          /\ ens'[<<"pp_buy", r>>] <= ens[<<"pp_buy", r>>]
          /\ ens'[<<"pp_cart", r>>] <= ens[<<"pp_cart", r>>]]_vars

\* C2: last request wins: when two requests have both recorded an intent
\* and a tab and every handler has returned, the FlowState carries the
\* intent and the tab of the later one.
C2_LastRequestWins ==
    \A r, q \in Req :
        (/\ r < q
         /\ \A x \in Req : hq[x].pc = "done"
         /\ r \in opened /\ q \in opened
         /\ \A x \in Req : x > q => x \notin opened)
        => (currentState.data.req = q /\ currentState.tabId = q)

\* C3: at no time are two storefront-mutating requests in flight to the
\* tab of one flow.
C3_OneMutationInFlight == \A t \in Tabs : MutatingInFlight(t) <= 1

\* C4: within one request CLICK_BUY_NOW is sent to the page agent at most
\* once.
C4_BuyNowAtMostOnce == \A t \in Tabs : sent[t] <= 1

\* C5: a request whose parsed intent has a product puts the FlowState in
\* SEARCHING exactly once: handleUserQuery does it when the intent is
\* recorded, and no step of that request's flow does it again.  A request
\* still before that point, and a tab that belongs to no request, never did.
C5_SearchingOnce ==
    /\ \A t \in Tabs : entered[t] <= 1
    /\ entered[0] = 0
    /\ \A r \in Req :
         /\ (hq[r].pc = "createTab" \/ r \in opened) => entered[r] = 1
         /\ hq[r].pc \in {"new", "getKey", "noKey", "parse", "backoff"} => entered[r] = 0
         /\ currentState.data.req = r => entered[r] = 1

\* Both requests were parsed with a product and the live flow has moved on
\* to the checkout.
C5_Witness ==
    /\ \A r \in Req : entered[r] = 1 /\ hq[r].pc = "done"
    /\ currentState.status = "CHECKOUT_FLOW"

\* C6: a PAGE_LOADED whose sender is not currentState.tabId is discarded:
\* the step changes no field of currentState, starts no invocation and
\* issues no request to any tab.
C6_StaleLoadDiscarded ==
    [][\A t \in Tabs :
          (t # currentState.tabId /\ PageLoaded(t)) =>
              UNCHANGED <<currentState, hq, ens, opened, sent, entered>>]_vars

\* A flow is on its product page, with no step running, while the tab of an
\* earlier request is still open: a PAGE_LOADED from that tab is received in
\* this state and leaves it as it is.
C6_Witness ==
    /\ currentState.status = "PRODUCT_PAGE"
    /\ Running = 0
    /\ \E t \in opened \ {0} : t # currentState.tabId /\ ENABLED PageLoaded(t)
\* ------------------------------------------------------------- generateContent
Quota == {429, 403}
FetchedModels == [k \in 1 .. Len(call.fetched) |-> call.fetched[k].model]
FetchedStatuses == [k \in 1 .. Len(call.fetched) |-> call.fetched[k].status]
\* The candidates were called in list order, once each.
CalledInOrder ==
    /\ Len(call.fetched) <= Len(call.modelsToTry)
    /\ FetchedModels = SubSeq(call.modelsToTry, 1, Len(call.fetched))
\* The call wrote neither the response cache nor the working-model entry.
WroteNothing == cacheStore = call.cache0 /\ storage = call.storage0
IsPrefix(s, t) == Len(s) <= Len(t) /\ s = SubSeq(t, 1, Len(s))

\* C7: with three candidates of which the first two answer 429 and the third
\* 200, generateContent calls them in order once each, does not fail,
\* returns the third's response, and its attempt log is exactly FAILED,
\* FAILED, SUCCESS for the three models.
C7_Fallback ==
    (Len(call.modelsToTry) = 3 /\ IsPrefix(FetchedStatuses, <<429, 429, 200>>)) =>
        /\ CalledInOrder
        /\ call.pc # "threw"
        /\ call.pc = "fetch" => call.i = Len(call.fetched) + 1
        /\ call.pc \in {"write", "returned"} =>
             /\ Len(call.fetched) = 3
             /\ call.result = Data(call.modelsToTry[3], call.prompt, call.sys)
             /\ [k \in 1 .. Len(call.modelAttempts) |->
                    <<call.modelAttempts[k].model, call.modelAttempts[k].status>>]
                = << <<call.modelsToTry[1], "FAILED">>, <<call.modelsToTry[2], "FAILED">>,
                     <<call.modelsToTry[3], "SUCCESS">> >>
C7_Witness ==
    /\ call.pc = "returned"
    /\ Len(call.modelsToTry) = 3
    /\ FetchedStatuses = <<429, 429, 200>>

\* C8: an answer that is neither a success nor 429 or 403 ends the call at
\* once with that error: it is the last answer, no further candidate is
\* fetched, and the response cache and the working-model store are as the
\* call found them.
C8_FailsImmediately ==
    \A k \in 1 .. Len(call.fetched) :
        call.fetched[k].status \notin Quota \cup {200} =>
            /\ k = Len(call.fetched)
            /\ call.pc = "threw"
            /\ call.error.status = call.fetched[k].status
            /\ call.fetched[k].status # NetworkError => call.error.model = call.fetched[k].model
            /\ CalledInOrder
            /\ WroteNothing
C8_Witness ==
    /\ call.pc = "threw"
    /\ Len(call.modelsToTry) = 3
    /\ FetchedStatuses = <<429, 500>>
    /\ cacheStore # <<>>
    /\ \E k \in StorageKeys : storage[k] # ""

\* C9: while every answer is 429 or 403 the candidates are called in list
\* order once each, nothing is returned and nothing is written; the call
\* fails only after the last candidate, with its error.
C9_AllRejected ==
    (Len(call.fetched) > 0 /\ \A k \in 1 .. Len(call.fetched) : call.fetched[k].status \in Quota) =>
        /\ CalledInOrder
        /\ call.pc \in {"fetch", "threw"}
        /\ call.pc = "fetch" => call.i = Len(call.fetched) + 1
        /\ call.pc = "threw" =>
             /\ Len(call.fetched) = Len(call.modelsToTry)
             /\ call.error = [status |-> call.fetched[Len(call.fetched)].status,
                              model |-> call.fetched[Len(call.fetched)].model]
        /\ call.result = NoData
        /\ WroteNothing
C9_Witness ==
    /\ call.pc = "threw"
    /\ FetchedStatuses = <<429, 403, 429>>
    /\ cacheStore # <<>>

\* The call passed no explicit model, missed the response cache and has
\* built its candidate list, and the last success under its key prefix was
\* on the day the call computed.
AfterSuccessToday ==
    /\ call.pc \in {"fetch", "write", "threw", "returned"}
    /\ call.modelsToTry # <<>>
    /\ call.modelName = ""
    /\ call.previous.model # ""
    /\ call.previous.day = call.today
PromotedFirst ==
    /\ call.modelsToTry[1] = call.previous.model
    /\ Tail(call.modelsToTry) =
           SelectSeq(call.availableModels, LAMBDA m : m # call.previous.model)
    /\ \A i, j \in 1 .. Len(call.modelsToTry) :
           i # j => call.modelsToTry[i] # call.modelsToTry[j]
    /\ CalledInOrder

C11_OneModelCall ==
    \A text \in Prompts :
        (now <= FirstMinute + ResponseTTL /\ ~rejected[text]) => fetches[text] <= 1

\* ---------------------------------------------------------- retryWithBackoff
\* C12: when the last error raised is retryable and retryWithBackoff has
\* failed, the operation was invoked exactly maxRetries + 1 times, the error
\* thrown is the one the last attempt raised, and a delay was waited before
\* every attempt but the first and none after the last.
C12_ExhaustedRetries ==
    /\ rw.pc # "idle" => rw.calls = rw.attempt + 1 /\ rw.waits = rw.attempt
    /\ (rw.pc = "threw" /\ isRetryable(rw.raised, rw.config)) =>
           /\ rw.calls = rw.config.maxRetries + 1
           /\ rw.waits = rw.config.maxRetries
           /\ rw.error = rw.raised
C12_Witness ==
    /\ rw.pc = "threw"
    /\ isRetryable(rw.raised, rw.config)
    /\ rw.calls = 3
    /\ rw.waits = 2
    /\ rw.options.maxRetries = 2
    /\ rw.raised.status = 500

\* C13: an attempt that raised an error classified non-retryable ended the
\* call at once with that error: no further invocation, no delay and no
\* onRetry call came after it.
C13_NonRetryableRethrown ==
    (rw.raised # NoRetryError /\ ~isRetryable(rw.raised, rw.config)) =>
        /\ rw.pc = "threw"
        /\ rw.error = rw.raised
        /\ rw.calls = rw.attempt + 1
        /\ rw.waits = rw.attempt
        /\ rw.onRetries = IF rw.config.onRetry THEN rw.attempt ELSE 0
C13_Witness ==
    /\ rw.pc = "threw"
    /\ ~isRetryable(rw.raised, rw.config)
    /\ rw.attempt = 1
    /\ rw.config.maxRetries = 3
    /\ rw.config.onRetry
    /\ rw.raised = [name |-> "TypeError", network |-> FALSE, status |-> 0]

\* The classification as claimed: network-class, or status 5xx or 429, or
\* the class on the allow-list.
ClaimedRetryable(error, config) ==
    \/ error.name = "NetworkError" \/ error.network
    \/ error.status \in 500 .. 599 \/ error.status = 429
    \/ error.name \in config.retryableErrors

\* C14: an attempt that is not the last is followed by a retry exactly when
\* its error is network-class, or carries status 5xx or 429, or has its
\* class on the allow-list (whatever other status it carries).
C14_Classification ==
    (rw.pc \in {"threw", "onRetry", "delay"} /\ rw.attempt < rw.config.maxRetries) =>
        (rw.pc # "threw" <=> ClaimedRetryable(rw.raised, rw.config))

\* min(initialDelay * multiplier^n, maxDelay)
ClaimedBase(n, config) ==
    LET d == config.initialDelay * Pow(config.multiplier, n)
    IN  IF d < config.maxDelay THEN d ELSE config.maxDelay

\* C15: the delay computed after the failed attempt n is at least the base
\* min(initialDelay * multiplier^n, maxDelay) and at most 1.3 times it; with
\* initialDelay 1000, multiplier 2 and the default maxDelay the bases after
\* attempts 0, 1 and 2 are 1000, 2000 and 4000.
C15_DelayBounds ==
    rw.pc \in {"onRetry", "delay"} =>
        /\ ClaimedBase(rw.attempt, rw.config) <= rw.delay
        /\ 10 * rw.delay <= 13 * ClaimedBase(rw.attempt, rw.config)
        /\ (/\ rw.config.initialDelay = 1000 /\ rw.config.multiplier = 2
            /\ rw.config.maxDelay = 30000 /\ rw.attempt <= 2) =>
               /\ ClaimedBase(rw.attempt, rw.config) = <<1000, 2000, 4000>>[rw.attempt + 1]
               /\ rw.delay >= <<1000, 2000, 4000>>[rw.attempt + 1]
               /\ 10 * rw.delay <= 13 * <<1000, 2000, 4000>>[rw.attempt + 1]
C15_Witness ==
    /\ rw.pc = "delay"
    /\ rw.config.maxRetries = 3 /\ rw.config.initialDelay = 1000
    /\ rw.config.multiplier = 2 /\ rw.config.maxDelay = 30000
    /\ rw.attempt = 2
    /\ rw.delay = 5080

\* ------------------------------------------------------------------ getByUrl
\* The host is a registered domain of the platform or a subdomain of one.
HostIsDomainOf(platform, url) ==
    \E k \in 1 .. Len(platform.domains) :
        LET d == platform.domains[k]
            n == Len(url.host) - Len(d)
        IN  /\ n >= 0
            /\ SubSeq(url.host, n + 1, Len(url.host)) = d
            /\ n > 0 => url.host[n] \in {"www.", "m."}

\* C16: getByUrl returns the first platform in registration order that has
\* a domain matching the URL, null when the host is no registered domain
\* nor a subdomain of one, and Flipkart for https://www.flipkart.com/x when
\* Amazon and Flipkart are registered.
C16_GetByUrl ==
    lookup.done =>
        /\ \A k \in 1 .. Len(platforms) :
              (/\ HostIsDomainOf(platforms[k], lookup.url)
               /\ \A j \in 1 .. k - 1 : ~HostIsDomainOf(platforms[j], lookup.url))
              => lookup.result = platforms[k].name
        /\ (\A k \in 1 .. Len(platforms) : ~HostIsDomainOf(platforms[k], lookup.url))
              => lookup.result = ""
        /\ (/\ {platforms[k].name : k \in 1 .. Len(platforms)} = {"amazon", "flipkart"}
            /\ lookup.url = [scheme |-> <<"https://">>,
                             host |-> <<"www.", "flipkart", ".com">>, rest |-> <<"/x">>])
              => lookup.result = "flipkart"

\* ------------------------------------------------------- failures of a request
\* C17: a request goes on to open a tab only if the platform its intent
\* names is registered (or it names none, and the preferred platform or
\* amazon is used); with an unregistered name it opens no tab.
C17_UnregisteredPlatformFails ==
    [][\A r \in Req :
          (hq[r].pc = "parse" /\ hq'[r].pc = "createTab") =>
              currentState'.data.platform \in RegisteredNames \cup {""}]_vars

\* C18: when intent resolution ends without a product or with the error of
\* the last parse attempt, the status becomes FAILED.
C18_ParseFailureFails ==
    [][\A r \in Req :
          (hq[r].pc = "parse" /\ hq'[r].pc = "catch") =>
              currentState'.status = "FAILED"]_vars

\* C19: when a request finds no API key and returns, the status is FAILED.
C19_MissingKeyFails ==
    [][\A r \in Req :
          (hq[r].pc = "noKey" /\ hq'[r].pc = "done") =>
              currentState'.status = "FAILED"]_vars

\* C20: the step that receives an empty result list in SELECTING leaves the
\* status FAILED.
C20_NoResultsFails ==
    [][\A t \in Tabs :
          (SelFirstAnswer(t, "empty") \/ SelRetryAnswer(t, "empty")) =>
              currentState'.status = "FAILED"]_vars

\* ---------------------------------------------------- steps of the flow
\* C21: when CLICK_BUY_NOW is answered without success or its send throws,
\* ADD_TO_CART is sent once, and once the fallback has been answered the
\* flow rests in a state that is neither PRODUCT_PAGE nor FAILED.
C21_BuyNowFallback ==
    [][\A t \in Tabs :
          /\ (BuyNowAnswer(t, "failure") \/ BuyNowAnswer(t, "throw"))
                => ens'[<<"pp_cart", t>>] = ens[<<"pp_cart", t>>] + 1
          /\ CartAnswer(t)
                => currentState'.status \notin {"PRODUCT_PAGE", "FAILED"}]_vars

\* C22: when the retry of GET_SEARCH_RESULTS also goes unanswered, the step
\* leaves the status FAILED.
C22_UnansweredResultsFail ==
    [][\A t \in Tabs :
          SelRetryAnswer(t, "error") => currentState'.status = "FAILED"]_vars

\* C23: a request that waits between two parse attempts when a later
\* request has already been submitted makes no further attempt.
C23_SupersededStopsRetrying ==
    [][\A r \in Req :
          (/\ hq[r].pc = "backoff"
           /\ \E q \in Req : q > r /\ hq[q].pc # "new")
              => hq'[r].pc # "parse"]_vars

\* C27: when a request with an API key goes on to call parseIntent, the
\* status is PARSING, and it stays PARSING while an attempt or a wait of the
\* only request under way lasts.
C27_ParsingWhileResolving ==
    [][\A r \in Req :
          /\ (hq[r].pc = "getKey" /\ hq'[r].pc = "parse")
                => currentState'.status = "PARSING"
          /\ (/\ hq'[r].pc \in {"parse", "backoff"}
              /\ \A q \in Req \ {r} : hq'[q].pc = "new")
                => currentState'.status = "PARSING"]_vars

\* C28: the status changes from SEARCHING to SELECTING only when an
\* injection of the search script resolves, and the script is injected only
\* into the tab that is live, in SEARCHING, when its page load arrives.
C28_SelectingAfterSearch ==
    [][/\ (currentState.status = "SEARCHING" /\ currentState'.status = "SELECTING")
            => \E t \in opened :
                  /\ ens[<<"search", t>>] > 0
                  /\ ens'[<<"search", t>>] = ens[<<"search", t>>] - 1
       /\ \A t \in Tabs :
            ens'[<<"search", t>>] > ens[<<"search", t>>]
               => /\ t = currentState.tabId
                  /\ t \in opened
                  /\ currentState.status = "SEARCHING"
                  /\ UNCHANGED currentState]_vars

\* The search script of a request's tab has resolved and no step is under way.
C28_Witness ==
    /\ currentState.status = "SELECTING"
    /\ currentState.tabId = currentState.data.req
    /\ currentState.tabId \in opened
    /\ Running = 0

\* C30: the status becomes COMPLETED only from CHECKOUT_FLOW, in the step
\* that read a confirmation URL from the live tab, and GET_ORDER_DETAILS is
\* sent only in that step.
C30_CompletedFromCheckout ==
    [][\A t \in Tabs :
          /\ (currentState.status # "COMPLETED" /\ currentState'.status = "COMPLETED")
                => currentState.status = "CHECKOUT_FLOW"
          /\ ens'[<<"co_details", t>>] > ens[<<"co_details", t>>]
                => /\ currentState.status = "CHECKOUT_FLOW"
                   /\ currentState'.status = "COMPLETED"
                   /\ t = currentState.tabId
                   /\ TabUrlRead(t, TRUE)]_vars

\* ------------------------------------------- failures of the key-value store
\* C25: when the read of the working model fails, the candidates are the
\* unpromoted list, called in order with none skipped; and whatever the read
\* and the write of the working model do, a call in which a candidate answers
\* 200 does not fail and returns that candidate's response.
C25_StoreFailureTolerated ==
    /\ (~call.readOk /\ (call.pc = "fetch" \/ call.fetched # <<>>)) =>
          /\ call.modelsToTry = IF call.modelName # "" THEN <<call.modelName>>
                                ELSE call.availableModels
          /\ CalledInOrder
    /\ \A k \in 1 .. Len(call.fetched) :
          call.fetched[k].status = 200 =>
              /\ k = Len(call.fetched)
              /\ call.pc \in {"write", "returned"}
              /\ call.result = Data(call.fetched[k].model, call.prompt, call.sys)
    /\ call.pc = "threw" =>
          /\ call.fetched # <<>>
          /\ call.error.status = call.fetched[Len(call.fetched)].status
          /\ QuotaStatus(call.error.status) => Len(call.fetched) = Len(call.modelsToTry)

\* Both the read and the write failed in a call that had a working model of
\* today in the store, other than the first listed, and whose second
\* candidate answered 200.
C25_Witness ==
    /\ call.pc = "returned"
    /\ ~call.readOk
    /\ call.modelName = ""
    /\ Len(call.availableModels) >= 2
    /\ call.storage0[<<KeyPrefix(call.apiKey), call.today>>]
          \notin {"", call.availableModels[1]}
    /\ FetchedStatuses = <<429, 200>>
    /\ ~lastSuccess[KeyPrefix(call.apiKey)].stored
    /\ call.result = Data(call.availableModels[2], call.prompt, call.sys)

\* ------------------------------------------------------ platform resolution
\* C26: the platform name startAutomation resolves is the intent's platform
\* when it names one, else the configured preferred platform when one is
\* set, else amazon; a registered name is the platform the tab is opened
\* on, and the request opens one new tab, which with neither an intent
\* platform nor a preference is an Amazon tab.
C26_PlatformPrecedence ==
    [][\A r \in Req :
          /\ (hq[r].pc = "parse" /\ hq'[r].pc = "createTab") =>
                LET intent == currentState'.data
                    q == hq'[r]
                IN  /\ intent.platform # "" => q.platformName = intent.platform
                    /\ (intent.platform = "" /\ q.preferred # "")
                          => q.platformName = q.preferred
                    /\ (intent.platform = "" /\ q.preferred = "")
                          => q.platformName = "amazon"
                    /\ q.platformName \in RegisteredNames => q.platform = q.platformName
          /\ (hq[r].pc = "createTab" /\ hq'[r].pc # "createTab") =>
                \/ /\ r \notin opened
                   /\ opened' = opened \cup {r}
                   /\ currentState'.tabId = r
                   /\ currentState'.platform = hq[r].platform
                   /\ hq'[r].pc = "done"
                \/ /\ opened' = opened
                   /\ hq'[r].pc = "catch"]_vars

\* The tab of a request whose intent names no platform, submitted with no
\* preference configured, is about to be created on amazon.
C26_Witness ==
    \E r \in Req :
        /\ hq[r].pc = "createTab"
        /\ currentState.data = [req |-> r, product |-> "phone", platform |-> ""]
        /\ hq[r].preferred = ""
        /\ hq[r].platformName = "amazon"
        /\ hq[r].platform = "amazon"
        /\ r \notin opened

C29_FirstNonSponsored ==
    sr.pc = "navigated" =>
        /\ ~sr.page[sr.chosen].sponsored
        /\ \A j \in 1 .. sr.chosen - 1 :
              \/ sr.page[j].sponsored
              \/ ~sr.page[j].title
              \/ "product" \notin {sr.page[j].first, sr.page[j].second}

\* ------------------------------------------------------- the end of a flow
\* C31: when the step that found the order confirmation ends, and when the
\* catch of a failed request ends, the flow state is IDLE with no intent and
\* no tab.
C31_ResetOnTerminal ==
    [][/\ \A t \in Tabs :
             (ens[<<"co_details", t>>] > 0 /\ ens'[<<"co_details", t>>] < ens[<<"co_details", t>>])
                => /\ currentState'.status = "IDLE"
                   /\ currentState'.data = NoIntent
                   /\ currentState'.tabId = NoTab
       /\ \A r \in Req :
             (hq[r].pc = "catch" /\ hq'[r].pc = "done")
                => currentState'.status = "IDLE"]_vars

\* The place of a status on the path of a flow.
StatusRank(status) ==
    CASE status = "SEARCHING" -> 1
      [] status = "SELECTING" -> 2
      [] status = "PRODUCT_PAGE" -> 3
      [] status = "CHECKOUT_FLOW" -> 4
      [] status = "COMPLETED" -> 5
      [] OTHER -> 0

\* C33: while the intent of one request stays in place, no step sets the
\* status to an earlier one on the path SEARCHING, SELECTING, PRODUCT_PAGE,
\* CHECKOUT_FLOW, COMPLETED.
C33_StatusMovesForward ==
    [][currentState'.data = currentState.data
          => StatusRank(currentState'.status) >= StatusRank(currentState.status)]_vars

\* C34: while a request has set SEARCHING and its tab is not yet recorded,
\* no page load starts an injection of the search script.
C34_NoSearchBeforeTab ==
    [][(\E r \in Req : hq[r].pc = "createTab" /\ currentState.data.req = r)
          => \A t \in Tabs : ens'[<<"search", t>>] <= ens[<<"search", t>>]]_vars

\* C38: the steps of a request before its intent is recorded, and its catch,
\* leave the flow state (status, intent, tab, platform) as it was; the page
\* loads of the live tab are judged by that state alone.
C38_EarlyEndLeavesState ==
    [][\A r \in Req :
          (/\ hq'[r] # hq[r]
           /\ hq[r].pc # "createTab"
           /\ hq'[r].pc # "createTab")
             => UNCHANGED currentState]_vars

\* Request 2 ended before SEARCHING; the flow of request 1 is in place and a
\* step of it, started by a page load of its tab, is under way.
C38_Witness ==
    /\ hq[2].pc = "done"
    /\ entered[2] = 0
    /\ hq[1].pc = "done"
    /\ currentState.data.req = 1
    /\ currentState.tabId = 1
    /\ currentState.status = "PRODUCT_PAGE"
    /\ At("pp_wait", 1)

\* -------------------------------------------------- an unparseable response
\* The attempt of request r that now starts follows one that failed to parse
\* a response, within the time that response is cached for.
RetriesWithinTTL(r) ==
    /\ pq[r].pc = "backoff"
    /\ pq'[r].attempt = pq[r].attempt + 1
    /\ pq[r].bad # NoData
    /\ now <= pq[r].badUntil

C36_OneEntryPerFetch ==
    /\ Len(call.modelAttempts) = Len(call.fetched)
    /\ \A k \in 1 .. Len(call.fetched) : call.modelAttempts[k].model = call.fetched[k].model

\* ------------------------------------------------- the caller's maxRetries
\* C37: retryWithBackoff invokes the operation at most the caller-supplied
\* maxRetries + 1 times; with maxRetries = 0 a failure is not retried.
C37_CallsWithinMaxRetries == rw.pc # "idle" => rw.calls <= rw.options.maxRetries + 1

\* ----------------------------------------------------- the response cache
\* The step in which generateContent is called and looks the cache up.
Called == ncalls' = ncalls + 1
CalledKey == GeminiCacheKey(call'.prompt, call'.sys, call'.modelName)

Keys(store) == [k \in 1 .. Len(store) |-> store[k].key]

\* C39: the cache never holds more than CacheMaxSize entries; a set of a new
\* key into a full cache removes the first-inserted key and nothing else, a
\* set of a key already there removes nothing.
C39_EvictsOldestOnly ==
    [][/\ Len(cs'.store) <= CacheMaxSize
       /\ cs'.last.op = "set" =>
             LET key == cs'.last.key
             IN  IF CacheIndex(cs.store, key) # 0
                 THEN Keys(cs'.store) = Keys(cs.store)
                 ELSE IF Len(cs.store) = CacheMaxSize
                 THEN Keys(cs'.store) = Append(Tail(Keys(cs.store)), key)
                 ELSE Keys(cs'.store) = Append(Keys(cs.store), key)]_cs

\* A full cache whose oldest key made room for the key set last.
C39_Witness ==
    /\ Len(cs.store) = CacheMaxSize
    /\ cs.last.op = "set"
    /\ cs.store[CacheMaxSize].key = cs.last.key
    /\ cs.store[1].key = 2

\* ------------------------------------------------------ the default address
\* The positions of the addresses marked as the default.
Defaults == {k \in 1 .. Len(am.addresses) : am.addresses[k].isDefault}

\* C40: at most one address is marked as the default; when there are
\* addresses exactly one is, and getDefaultAddress returns it.
C40_OneDefault ==
    /\ Cardinality(Defaults) <= 1
    /\ Len(am.addresses) > 0 =>
          /\ Cardinality(Defaults) = 1
          /\ \A k \in Defaults : am.defaultAddress = am.addresses[k].ref

====
